---- MODULE Spec2Model ----
(***************************************************************************)
(* Download-link discovery of umake/frameworks/games.py and ide.py.        *)
(*                                                                         *)
(* One behaviour is one install run of one tool.  The run starts with the  *)
(* fetch of the tool's download page in flight; every Download Center      *)
(* completion callback is one action.                                      *)
(*                                                                         *)
(* Text is modelled as sequences of tokens.  A URL is a sequence of        *)
(* strings, a page line is a record holding the one href of the line, the  *)
(* text that follows its closing quote, and the other fragments ("marks")  *)
(* the line contains.  `X in line` and the regular expressions of the code *)
(* are computed over these tokens.                                         *)
(***************************************************************************)
EXTENDS Integers, Sequences, FiniteSets, TLC

VARIABLES
    tool,               \* the installer class of this run
    arch,               \* get_current_arch()
    page,               \* DownloadResult of self.download_page
    args,               \* args.eap / args.insiders of the command line
    target,             \* name, description, download_page, desktop_filename, ...
    pc,                 \* "init", "wait_page", "resolving", "started", "fetched",
                        \* "extracted", "done", "failed"
    self,               \* the installer's scan attributes
    download_requests,  \* self.download_requests
    inflight,           \* Download Center batches issued, not yet called back
    fetched,            \* every URL handed to the Download Center after the page
    delivered,          \* the second-stage callbacks delivered so far
    nstart,             \* calls of start_download_and_install
    status,             \* status_code given to UI.return_main_screen (0: none)
    errmsg,             \* the last logger.error message
    crashed,            \* exception that left a callback unhandled ("" : none)
    threads,            \* the callbacks that ran, each with the thread it ran on
    privileged,         \* the privileged actions invoked, with stage and result
    artifact,           \* the lines of the downloaded artifact (Unity3D's script)
    unpacked,           \* the lines handed to the extractor, None before
    launcher,           \* calls of create_launcher
    icon_saved,         \* save_icon copied the icon into the install directory
    environ,            \* how the process was started, and the members of dialout
    displayed,          \* the messages given to UI.delayed_display
    fds,                \* names of the downloaded files given to decompress_and_install
    renamed             \* the os.rename calls made: source and destination

vars == <<tool, arch, page, args, target, pc, self, download_requests, inflight,
          fetched, delivered, nstart, status, errmsg, crashed, threads,
          privileged, artifact, unpacked, launcher, icon_saved, environ, displayed,
          fds, renamed>>

\* Longest page (lines), asset list, anchor list of the model.
MaxLines == 3

\* Longest files.js (lines) of the model.
MaxFiles == 2

\* Longest downloaded installer script (lines) of the model.
MaxScript == 3

----------------------------------------------------------------------------
\* Text

\* Python's None where a URL or a string is expected.
None == <<"<None>">>

\* needle is a contiguous part of hay (both token sequences); '' is in everything.
IsSub(needle, hay) ==
    \E i \in 0..(Len(hay) - Len(needle)) :
        \A j \in 1..Len(needle) : hay[i + j] = needle[j]

StartsWith(s, prefix) ==
    /\ Len(s) >= Len(prefix)
    /\ \A j \in 1..Len(prefix) : s[j] = prefix[j]

EndsWith(s, suffix) ==
    /\ Len(s) >= Len(suffix)
    /\ \A j \in 1..Len(suffix) : s[Len(s) - Len(suffix) + j] = suffix[j]

\* A page line.
Line(marks, href, follow, sha) ==
    [marks |-> marks, href |-> href, follow |-> follow, sha |-> sha]

Plain == Line({}, None, "", "")

\* Python: needle in line
InLine(needle, line) ==
    \/ needle = <<>>
    \/ needle \in line.marks
    \/ line.href # None /\ IsSub(needle, line.href)

Range(s) == {s[i] : i \in 1..Len(s)}

Min(S) == CHOOSE x \in S : \A y \in S : x <= y
Max(S) == CHOOSE x \in S : \A y \in S : y <= x

SeqsUpTo(S, n) == UNION {[1..k -> S] : k \in 0..n}

\* platform.machine() of the host whose dpkg architecture is arch
Machine == IF arch = "i386" THEN "i686" ELSE "x86_64"

OtherArch(a) == IF a = "i386" THEN "amd64" ELSE "i386"

\* DownloadItem(url, checksum, ...), Checksum(type, value)
NoChecksum == [type |-> "none", value |-> ""]
Checksum(type, value) == [type |-> type, value |-> value]
DownloadItem(url, checksum) ==
    [url |-> url, checksum |-> checksum, cookies |-> None, ignore_encoding |-> FALSE]

\* One Download Center call: the URLs of the batch and its on_done callback.
Batch(urls, on_done) == [urls |-> urls, on_done |-> on_done]

\* What a callback did: the new attributes and requests, the batches it handed
\* to the Download Center, its calls of start_download_and_install, and how it
\* ended: "ok", "error" (UI.return_main_screen(status_code=1) after
\* logger.error(msg)), or "crash" (an exception msg nobody caught).
Out(slf, reqs, issue, start, end, msg) ==
    [self |-> slf, reqs |-> reqs, issue |-> issue, start |-> start,
     end |-> end, msg |-> msg]

Error(slf, reqs, issue, msg) == Out(slf, reqs, issue, 0, "error", msg)
Crash(slf, reqs, issue, msg) == Out(slf, reqs, issue, 0, "crash", msg)

MsgPageError == "An error occurred while downloading"
MsgSyntax == "Download page changed its syntax or is not parsable"

\* an installer that still holds the URL and the digest of an earlier scan
SelfInitStale(in_group) ==
    [download_url |-> <<"http://", "beta.unity", "3d.com/download/", "v0",
                        "/public_download", ".html">>,
     checksum |-> <<"sha1a">>, sha512_url |-> None,
     checksum_url |-> None,
     scraped_download_url |-> <<"http:", "//downloads.arduino.cc/", "old">>,
     scraped_checksum_url |-> <<"http:", "//downloads.arduino.cc/", "old.md5">>,
     version |-> None, version_download_page |-> None,
     was_in_arduino_group |-> in_group]

\* the attributes the scans read and write; in_group: Arduino.was_in_arduino_group
SelfInit(in_group) ==
    [download_url |-> None, checksum |-> None, sha512_url |-> None,
     checksum_url |-> None, scraped_download_url |-> None,
     scraped_checksum_url |-> None, version |-> None, version_download_page |-> None,
     was_in_arduino_group |-> in_group]

----------------------------------------------------------------------------
\* The installer's metadata and run_for

\* name, description, download_page, desktop_filename, required_files_path of
\* the constructors; install_path is derived from the name by BaseInstaller
TargetInit(t) ==
    LET meta ==
          CASE t = "JetBrains" ->
                 <<"PyCharm", "PyCharm Community Edition",
                   <<"https://data.services.jetbrains.com/products/releases?code=", "PCC">>,
                   "jetbrains-pycharm-ce", <<"bin/pycharm.sh">> >>
            [] t = "VisualStudioCode" ->
                 <<"Visual Studio Code", "Visual Studio focused on modern web and cloud",
                   <<"https://code.visualstudio.com/License">>,
                   "visual-studio-code", <<"bin/code">> >>
            [] t = "Unity3D" ->
                 <<"Unity3d", "Unity 3D Editor Linux experimental support",
                   <<"https://forum.unity3d.com/threads/unity-on-linux-release-notes-and-known-issues.350256">>,
                   "unity3d-editor", <<"Editor/Unity">> >>
            [] t = "Arduino" ->
                 <<"Arduino", "The Arduino Software Distribution",
                   <<"http://www.arduino.cc/en/Main/Software">>, "arduino", <<"arduino">> >>
            [] t = "Eclipse" ->
                 <<"Eclipse", "Eclipse Java IDE",
                   <<"https://www.eclipse.org/downloads/eclipse-packages/">>,
                   "eclipse-java", <<"eclipse">> >>
            [] OTHER -> <<t, t, <<"https://", t>>, t, <<t>> >>
    IN  [name |-> <<meta[1]>>,
         description |-> <<meta[2]>>,
         download_page |-> meta[3],
         desktop_filename |-> <<meta[4], ".desktop">>,
         install_path |-> <<"~/.local/share/umake/", meta[4]>>,
         required_files_path |-> meta[5]]

RECURSIVE Replace(_, _, _)
\* s.replace(old, new) for a one-token old
Replace(s, old, new) ==
    IF s = <<>> THEN <<>>
    ELSE (IF Head(s) = old THEN new ELSE <<Head(s)>>) \o Replace(Tail(s), old, new)

\* the tools whose parser has a variant flag (--eap, --insiders)
HasVariant(t) == t \in {"JetBrains", "VisualStudioCode"}

\* run_for switching to the EAP build whatever args.eap says
JetBrainsRunForAlwaysEap(eap, tg) ==
    [tg EXCEPT
        !.download_page = @ \o <<"&type=eap">>,
        !.name = @ \o <<" ", "EAP">>,
        !.description = @ \o <<" ", "EAP">>,
        !.desktop_filename = Replace(@, ".desktop", <<"-eap", ".desktop">>),
        !.install_path = @ \o <<"-eap">>]

\* BaseJetBrains.run_for before super().run_for(args)
JetBrainsRunFor(eap, tg) ==
    IF eap
    THEN [tg EXCEPT
            !.download_page = @ \o <<"&type=eap">>,
            !.name = @ \o <<" ", "EAP">>,
            !.description = @ \o <<" ", "EAP">>,
            !.desktop_filename = Replace(@, ".desktop", <<"-eap", ".desktop">>),
            !.install_path = @ \o <<"-eap">>]
    ELSE tg

\* VisualStudioCode.run_for before super().run_for(args)
VSCodeRunFor(insiders, tg) ==
    IF insiders
    THEN [tg EXCEPT
            !.name = @ \o <<" ", "Insiders">>,
            !.description = @ \o <<" ", "insiders">>,
            !.desktop_filename = Replace(@, ".desktop", <<"-insiders", ".desktop">>),
            !.install_path = @ \o <<"-insiders">>,
            !.required_files_path = <<"bin/code-insiders">>]
    ELSE tg

RunFor(t, flag, tg) ==
    CASE t = "JetBrains" -> JetBrainsRunFor(flag, tg)
      [] t = "VisualStudioCode" -> VSCodeRunFor(flag, tg)
      [] OTHER -> tg

----------------------------------------------------------------------------
\* BaseEclipse (Eclipse Java)

EclipseKeyword == <<"eclipse-java-">>

\* self.bits
EclipseBits == IF Machine = "i686" THEN <<>> ELSE <<"x86_64">>

EclipseHref(v, a) ==
    <<"/downloads/download.php?file=", "eclipse-java-", v, "-linux-gtk">>
    \o (IF a = "amd64" THEN <<"-", "x86_64">> ELSE <<>>) \o <<".", "tar.gz">>

EclipseLines ==
    { Line({}, EclipseHref("v1", "amd64"), "\" title", ""),
      Line({}, EclipseHref("v2", "amd64"), "\" title", ""),
      Line({}, EclipseHref("v1", "i386"), "\" title", ""),
      Line({<<"eclipse-java-">>, <<"x86_64">>}, None, "", ""),
      Plain }

\* re.search(r'href="(.*)" title', line)
EclipseSearch(line) ==
    IF line.href # None /\ line.follow = "\" title" THEN line.href ELSE None

EclipseShaUrl(href) == <<"https://www.eclipse.org/">> \o href \o <<".sha512", "&r=1">>

\* parse_download_link(line, in_download): [url_found, in_download, self, issue]
EclipseParseDownloadLink(line, in_download, slf) ==
    LET ind == InLine(EclipseKeyword, line) /\ InLine(EclipseBits, line)
        p == IF ind THEN EclipseSearch(line) ELSE None
    IN  IF p # None
        THEN [url_found |-> TRUE, in_download |-> ind,
              self |-> [slf EXCEPT !.sha512_url = EclipseShaUrl(p)],
              issue |-> <<Batch(<<EclipseShaUrl(p)>>, "get_sha_and_start_download")>>]
        ELSE [url_found |-> FALSE, in_download |-> ind, self |-> slf, issue |-> <<>>]

RECURSIVE EclipseScan(_, _, _)
\* the for loop of get_metadata over the lines from i on
EclipseScan(lines, i, acc) ==
    IF i > Len(lines) THEN acc
    ELSE LET r == EclipseParseDownloadLink(lines[i], acc.in_download, acc.self)
         IN  EclipseScan(lines, i + 1,
                 [url_found |-> IF ~acc.url_found THEN r.url_found ELSE acc.url_found,
                  in_download |-> r.in_download,
                  self |-> r.self,
                  issue |-> acc.issue \o r.issue])

EclipseGetMetadata(result, slf, reqs) ==
    IF result.error THEN Error(slf, reqs, <<>>, MsgPageError)
    ELSE LET s == EclipseScan(result.buffer, 1,
                      [url_found |-> FALSE, in_download |-> FALSE,
                       self |-> slf, issue |-> <<>>])
         IN  IF ~s.url_found THEN Error(s.self, reqs, s.issue, MsgSyntax)
             ELSE Out(s.self, reqs, s.issue, 0, "ok", "")

\* whitespace-split content of a checksum file, as the Download Center returns it
ChecksumFiles == { <<>>, <<"d1", "archive">>, <<"d2", "archive">> }

\* DownloadResult of one URL.  A failed fetch carries error and no buffer.
Result(url, error, buffer) == [url |-> url, error |-> error, buffer |-> buffer]

ChecksumResults(url) ==
    {Result(url, TRUE, <<>>)} \cup {Result(url, FALSE, b) : b \in ChecksumFiles}

\* re.sub(pattern, '', s) for a pattern of one any-character and a literal
ReSub(matching, s) == SelectSeq(s, LAMBDA t : t \notin matching)

DotSha512 == {".sha512", "-sha512"}

EclipseGetShaAndStartDownload(res, slf, reqs) ==
    IF res.url # slf.sha512_url THEN Crash(slf, reqs, <<>>, "KeyError")
    ELSE IF res.error THEN Crash(slf, reqs, <<>>, "AttributeError")
    ELSE IF res.buffer = <<>> THEN Crash(slf, reqs, <<>>, "IndexError")
    ELSE LET sha512 == res.buffer[1]
             url == ReSub(DotSha512, slf.sha512_url)
         IN  Out(slf, Append(reqs, DownloadItem(url, Checksum("sha512", sha512))),
                 <<>>, 1, "ok", "")

----------------------------------------------------------------------------
\* SpringToolsSuite

\* self.arch
StsArch == IF Machine = "i686" THEN <<>> ELSE <<"-", "x86_64">>

\* 'linux-gtk{}.tar.gz'.format(self.arch)
StsToken == <<"linux-gtk">> \o StsArch \o <<".", "tar.gz">>

StsHref(v, a) ==
    <<"http://dist.springsource.com/release/STS/", v, "/spring-tool-suite-", "linux-gtk">>
    \o (IF a = "amd64" THEN <<"-", "x86_64">> ELSE <<>>) \o <<".", "tar.gz">>

\* a release directory whose name holds a part the pattern '.sha1' matches
StsHrefSigned ==
    <<"http://dist.springsource.com/release/STS/", "v3", "-sha1", "/spring-tool-suite-",
      "linux-gtk", "-", "x86_64", ".", "tar.gz">>

StsLines ==
    { Line({}, StsHref("v1", "amd64"), "\">", ""),
      Line({}, StsHref("v2", "amd64"), "\">", ""),
      Line({}, StsHrefSigned, "\">", ""),
      Line({}, StsHref("v1", "i386"), "\">", ""),
      Line({<<"linux-gtk", "-", "x86_64", ".", "tar.gz">>, <<"linux-gtk", ".", "tar.gz">>},
           None, "", ""),
      Plain }

\* re.search(r'href="(.*.tar.gz)"', line)
StsSearch(line) ==
    IF line.href # None /\ EndsWith(line.href, <<".", "tar.gz">>) /\ Len(line.href) > 2
    THEN line.href ELSE None

StsParseDownloadLink(line, in_download, slf) ==
    LET ind == InLine(StsToken, line)
        p == IF ind THEN StsSearch(line) ELSE None
    IN  IF p # None
        THEN [url_found |-> TRUE, in_download |-> ind,
              self |-> [slf EXCEPT !.checksum_url = p \o <<".sha1">>],
              issue |-> <<Batch(<<p \o <<".sha1">>>>, "get_sha_and_start_download")>>]
        ELSE [url_found |-> FALSE, in_download |-> ind, self |-> slf, issue |-> <<>>]

RECURSIVE StsScan(_, _, _)
StsScan(lines, i, acc) ==
    IF i > Len(lines) THEN acc
    ELSE LET r == StsParseDownloadLink(lines[i], acc.in_download, acc.self)
         IN  StsScan(lines, i + 1,
                 [url_found |-> IF ~acc.url_found THEN r.url_found ELSE acc.url_found,
                  in_download |-> r.in_download,
                  self |-> r.self,
                  issue |-> acc.issue \o r.issue])

StsGetMetadataAndCheckLicense(result, slf, reqs) ==
    IF result.error THEN Error(slf, reqs, <<>>, MsgPageError)
    ELSE LET s == StsScan(result.buffer, 1,
                      [url_found |-> FALSE, in_download |-> FALSE,
                       self |-> slf, issue |-> <<>>])
         IN  IF ~s.url_found THEN Error(s.self, reqs, s.issue, MsgSyntax)
             ELSE Out(s.self, reqs, s.issue, 0, "ok", "")

DotSha1 == {".sha1", "-sha1"}

StsGetShaAndStartDownload(res, slf, reqs) ==
    IF res.url # slf.checksum_url THEN Crash(slf, reqs, <<>>, "KeyError")
    ELSE IF res.error THEN Crash(slf, reqs, <<>>, "AttributeError")
    ELSE IF res.buffer = <<>> THEN Crash(slf, reqs, <<>>, "IndexError")
    ELSE LET checksum == res.buffer[1]
             url == ReSub(DotSha1, slf.checksum_url)
         IN  Out(slf, Append(reqs, DownloadItem(url, Checksum("sha1", checksum))),
                 <<>>, 1, "ok", "")

----------------------------------------------------------------------------
\* Unity3D (match_last_link=True, checksum_type=sha1)

UnityHref(v) == <<"http://", "beta.unity", "3d.com/download/", v, "/public_download", ".html">>

UnityLines ==
    { Line({}, UnityHref("v1"), "\" target", "sha1a"),
      Line({}, UnityHref("v2"), "\" target", "sha1b"),
      Line({}, UnityHref("v3"), "\" target", ""),
      Line({<<"beta.unity">>}, None, "", ""),
      Line({}, None, "", "sha1c"),
      Plain }

\* re.search(r'href="(http://beta.unity.*.html)" target', line)
UnitySearch(line) ==
    IF /\ line.href # None
       /\ line.follow = "\" target"
       /\ StartsWith(line.href, <<"http://", "beta.unity">>)
       /\ EndsWith(line.href, <<".html">>)
    THEN line.href ELSE None

\* re.search(r'sh: (\w+)\)', line)
UnityShaSearch(line) == IF line.sha # "" THEN <<line.sha>> ELSE None

\* parse_download_link that keeps the URL of the first matching line
UnityParseKeepFirst(line, in_download, slf) ==
    LET hit == InLine(<<"beta.unity">>, line)
        ind == hit \/ in_download
        s1 == IF hit /\ UnitySearch(line) # None /\ slf.download_url = None
              THEN [slf EXCEPT !.download_url = UnitySearch(line)] ELSE slf
        s2 == IF ind /\ UnityShaSearch(line) # None
              THEN [s1 EXCEPT !.checksum = UnityShaSearch(line)] ELSE s1
    IN  [url_found |-> hit, in_download |-> ind, self |-> s2]

\* url_found is set before p.group(1) is evaluated
UnityParseDownloadLink(line, in_download, slf) ==
    LET hit == InLine(<<"beta.unity">>, line)
        ind == hit \/ in_download
        s1 == IF hit /\ UnitySearch(line) # None
              THEN [slf EXCEPT !.download_url = UnitySearch(line)] ELSE slf
        s2 == IF ind /\ UnityShaSearch(line) # None
              THEN [s1 EXCEPT !.checksum = UnityShaSearch(line)] ELSE s1
    IN  [url_found |-> hit, in_download |-> ind, self |-> s2]

\* match_last_link of the installer (only Unity3D sets it)
MatchLastLink(t) == t = "Unity3D"

RECURSIVE UnityScan(_, _, _)
\* url_found starts False and is never None: a line is parsed iff match_last_link
UnityScan(lines, i, acc) ==
    IF i > Len(lines) THEN acc
    ELSE IF ~MatchLastLink("Unity3D") THEN UnityScan(lines, i + 1, acc)
    ELSE LET r == UnityParseDownloadLink(lines[i], acc.in_download, acc.self)
         IN  UnityScan(lines, i + 1,
                 [url_found |-> IF ~acc.url_found THEN r.url_found ELSE acc.url_found,
                  in_download |-> r.in_download,
                  self |-> r.self])

\* get_metadata_and_check_license that takes the scraped link for the artifact
UnityGetMetadataStartsDirectly(result, slf, reqs) ==
    IF result.error THEN Error(slf, reqs, <<>>, MsgPageError)
    ELSE LET s == UnityScan(result.buffer, 1,
                      [url_found |-> FALSE, in_download |-> FALSE, self |-> slf])
         IN  IF ~s.url_found THEN Error(s.self, reqs, <<>>, MsgSyntax)
             ELSE Out(s.self,
                      Append(reqs, DownloadItem(s.self.download_url,
                                                Checksum("sha1", s.self.checksum[1]))),
                      <<>>, 1, "ok", "")

UnityGetMetadataAndCheckLicense(result, slf, reqs) ==
    IF result.error THEN Error(slf, reqs, <<>>, MsgPageError)
    ELSE LET s == UnityScan(result.buffer, 1,
                      [url_found |-> FALSE, in_download |-> FALSE, self |-> slf])
         IN  IF ~s.url_found THEN Error(s.self, reqs, <<>>, MsgSyntax)
             ELSE Out(s.self, reqs,
                      <<Batch(<<s.self.download_url>>, "get_url_and_start_download")>>,
                      0, "ok", "")

\* text of the intermediate page, in tokens
UnityPages ==
    { <<"Download", "http://", "download.unity3d.com/", "unity-editor-installer", ".sh", "now">>,
      <<"Moved">> }

UnityResults(url) ==
    {Result(url, TRUE, <<>>)} \cup {Result(url, FALSE, b) : b \in UnityPages}

\* re.search(r'http.*?.sh', text): from the first http to the nearest .sh behind it
HttpStarts(text) == {i \in 1..Len(text) : text[i] = "http://"}
ShEnds(text, i) == {j \in (i + 1)..Len(text) : text[j] = ".sh"}
UnityUrlSearch(text) ==
    LET from == {i \in HttpStarts(text) : ShEnds(text, i) # {}}
    IN  IF from = {} THEN None
        ELSE SubSeq(text, Min(from), Min(ShEnds(text, Min(from))))

\* get_url_and_start_download going on after it reported the missing checksum
UnityGetUrlContinuesAfterError(res, slf, reqs) ==
    IF res.error THEN Crash(slf, reqs, <<>>, "AttributeError")
    ELSE IF UnityUrlSearch(res.buffer) = None THEN Crash(slf, reqs, <<>>, "AttributeError")
    ELSE Out(slf,
             Append(reqs, DownloadItem(UnityUrlSearch(res.buffer),
                                       Checksum("sha1", slf.checksum[1]))),
             <<>>, 1, IF slf.checksum = None THEN "error" ELSE "ok",
             IF slf.checksum = None THEN MsgSyntax ELSE "")

UnityGetUrlAndStartDownload(res, slf, reqs) ==
    IF res.error THEN Crash(slf, reqs, <<>>, "AttributeError")
    ELSE IF UnityUrlSearch(res.buffer) = None THEN Crash(slf, reqs, <<>>, "AttributeError")
    ELSE IF slf.checksum = None
         THEN Error(slf, reqs, <<>>, MsgSyntax)
    ELSE Out(slf,
             Append(reqs, DownloadItem(UnityUrlSearch(res.buffer),
                                       Checksum("sha1", slf.checksum[1]))),
             <<>>, 1, "ok", "")

----------------------------------------------------------------------------
\* Installers scanned by BaseInstaller.get_metadata_and_check_license

\* What parse_download_link returns: None (has = FALSE) or ((url, None), ...)
Parsed(has, url, in_download) == [has |-> has, url |-> url, in_download |-> in_download]

StencylHref(a) ==
    <<"http://www.stencyl.com/download/get/", IF a = "amd64" THEN "lin64" ELSE "lin32">>

StencylOpen == <<">Linux <">>
StencylSentinel == <<"<div class=\"spacer\"><br/><br/>">>

StencylLines ==
    { Line({StencylOpen}, None, "", ""),
      Line({<<"64-">>}, StencylHref("amd64"), "\"><", ""),
      Line({<<"32-">>}, StencylHref("i386"), "\"><", ""),
      Line({StencylSentinel}, None, "", ""),
      Line({StencylOpen, StencylSentinel}, None, "", ""),
      Plain }

\* re.search(r'href="(.*)"><.*64-', line), 32- on i386
StencylSearch(line) ==
    LET bits == IF arch = "i386" THEN <<"32-">> ELSE <<"64-">>
    IN  IF line.href # None /\ line.follow = "\"><" /\ bits \in line.marks
        THEN line.href ELSE None

\* parse_download_link that looks for the sentinel only on lines without '>Linux <'
StencylParseOpenWins(line, in_download) ==
    LET ind == in_download \/ InLine(StencylOpen, line)
        url == IF ind THEN StencylSearch(line) ELSE None
        ind2 == IF ind /\ InLine(StencylSentinel, line) /\ ~InLine(StencylOpen, line)
                THEN FALSE ELSE ind
    IN  IF url = None THEN Parsed(FALSE, None, ind2) ELSE Parsed(TRUE, url, ind2)

StencylParseDownloadLink(line, in_download) ==
    LET ind == in_download \/ InLine(StencylOpen, line)
        url == IF ind THEN StencylSearch(line) ELSE None
        ind2 == IF ind /\ InLine(StencylSentinel, line) THEN FALSE ELSE ind
    IN  IF url = None THEN Parsed(FALSE, None, ind2) ELSE Parsed(TRUE, url, ind2)

TwineHref(v, a) ==
    <<"https://bitbucket.org/klembot/twinejs/downloads/twine_", v, "_",
      IF a = "amd64" THEN "linux64" ELSE "linux32", ".", "zip">>

TwineLines ==
    { Line({<<"linux64">>}, TwineHref("v1", "amd64"), "\" ", ""),
      Line({<<"linux64">>}, TwineHref("v2", "amd64"), "\" ", ""),
      Line({<<"linux32">>}, TwineHref("v1", "i386"), "\" ", ""),
      Plain }

\* re.search(r'href="(.*)" .*linux64', line), linux32 on i386
TwineSearch(line) ==
    LET bits == IF arch = "i386" THEN <<"linux32">> ELSE <<"linux64">>
    IN  IF line.href # None /\ line.follow = "\" " /\ bits \in line.marks
        THEN line.href ELSE None

TwineParseDownloadLink(line, in_download) == Parsed(TRUE, TwineSearch(line), FALSE)

TwineLogo == <<"http://twinery.org/img/logo", ".", "svg">>

SublimeArchTrans == IF arch = "amd64" THEN "x64" ELSE "x32"

SublimeHref(v, a) ==
    <<"https://download.sublimetext.com/sublime_text_3_build_", v, "_",
      IF a = "amd64" THEN "x64" ELSE "x32", ".", "tar.bz2">>

SublimeLines ==
    { Line({}, SublimeHref("v1", "amd64"), "\">", ""),
      Line({}, SublimeHref("v2", "amd64"), "\">", ""),
      Line({}, SublimeHref("v1", "i386"), "\">", ""),
      Line({}, <<"https://download.sublimetext.com/Sublime Text Build", ".", "dmg">>, "\">", ""),
      Plain }

\* re.search(r'href="([^<]*{}.tar.bz2)"'.format(arch_trans[arch]), line)
SublimeSearch(line) ==
    IF line.href # None /\ EndsWith(line.href, <<SublimeArchTrans, ".", "tar.bz2">>)
    THEN line.href ELSE None

SublimeParseDownloadLink(line, in_download) ==
    Parsed(TRUE,
           IF InLine(<<".", "tar.bz2">>, line) THEN SublimeSearch(line) ELSE None,
           in_download)

\* PERM_DOWNLOAD_LINKS.get(version); version is machine or machine + '-insiders'
PermDownloadLinks(version) ==
    CASE version = <<"i686">> -> <<"https://go.microsoft.com/fwlink/?LinkID=", "620885">>
      [] version = <<"x86_64">> -> <<"https://go.microsoft.com/fwlink/?LinkID=", "620884">>
      [] version = <<"i686", "-insiders">> ->
             <<"https://go.microsoft.com/fwlink/?LinkId=", "723969">>
      [] version = <<"x86_64", "-insiders">> ->
             <<"https://go.microsoft.com/fwlink/?LinkId=", "723968">>
      [] OTHER -> None

\* whitespace at the ends of a line
Indent == <<"    ">>

\* line.strip()
Strip(line) == [line EXCEPT !.marks = @ \ {Indent}]

LicenseTerms == <<"SOFTWARE LICENSE TERMS">>
DivEnd == <<"</div>">>

VSCodeLines ==
    { Line({LicenseTerms}, None, "", ""),
      Line({DivEnd}, None, "", ""),
      Line({LicenseTerms, DivEnd}, None, "", ""),
      Line({Indent}, None, "", ""),
      Plain }

\* parse_license(line, license_txt, in_license): the text written so far and the
\* flag returned
VSCodeParseLicense(line, license_txt, in_license) ==
    LET opened == IF InLine(LicenseTerms, line) THEN TRUE ELSE in_license
        inside == IF opened /\ InLine(DivEnd, line) THEN FALSE ELSE opened
    IN  [license_txt |-> IF inside THEN Append(license_txt, Strip(line)) ELSE license_txt,
         in_license |-> inside]

\* parse_download_link that never asks for the insiders build
VSCodeParseStableOnly(machine, name, line, in_download) ==
    Parsed(TRUE, PermDownloadLinks(<<machine>>), in_download)

\* parse_download_link on a host whose platform.machine() is machine
VSCodeParseDownloadLinkOn(machine, name, line, in_download) ==
    LET version == <<machine>>
                   \o (IF IsSub(<<"Insiders">>, name) THEN <<"-insiders">> ELSE <<>>)
    IN  Parsed(TRUE, PermDownloadLinks(version), in_download)

VSCodeParseDownloadLink(line, in_download) ==
    VSCodeParseDownloadLinkOn(Machine, target.name, line, in_download)

ParseDownloadLink(t, line, in_download) ==
    CASE t = "Stencyl" -> StencylParseDownloadLink(line, in_download)
      [] t = "Twine" -> TwineParseDownloadLink(line, in_download)
      [] t = "SublimeText" -> SublimeParseDownloadLink(line, in_download)
      [] t = "VisualStudioCode" -> VSCodeParseDownloadLink(line, in_download)

RECURSIVE BaseScan(_, _, _, _)
\* The line loop: the first URL found is kept unless match_last_link.
BaseScan(t, lines, i, acc) ==
    IF i > Len(lines) THEN acc
    ELSE IF acc.url = None \/ MatchLastLink(t)
    THEN LET r == ParseDownloadLink(t, lines[i], acc.in_download)
         IN  BaseScan(t, lines, i + 1,
                 [url |-> IF r.has /\ r.url # None THEN r.url ELSE acc.url,
                  in_download |-> r.in_download])
    ELSE BaseScan(t, lines, i + 1, acc)

BaseGetMetadataAndCheckLicense(t, result, slf, reqs) ==
    IF result.error THEN Error(slf, reqs, <<>>, MsgPageError)
    ELSE LET s == BaseScan(t, result.buffer, 1, [url |-> None, in_download |-> FALSE])
         IN  IF s.url = None THEN Error(slf, reqs, <<>>, MsgSyntax)
             ELSE Out(slf, Append(reqs, DownloadItem(s.url, NoChecksum)), <<>>, 1, "ok", "")

BaseTools == {"Stencyl", "Twine", "SublimeText", "VisualStudioCode"}

----------------------------------------------------------------------------
\* JSON release-API installers: Superpowers, LightTable, Atom, Processing

MsgCantParse == "Can't parse the download URL from the download page."

Asset(url) == [has_url |-> TRUE, url |-> url]
\* an asset without the 'browser_download_url' key
AssetNoUrl == [has_url |-> FALSE, url |-> None]

\* body of the page: not JSON, a JSON object without 'assets', or the assets
JsonBodies(assets) ==
    {[kind |-> "notjson", assets |-> <<>>], [kind |-> "noassets", assets |-> <<>>]}
    \cup {[kind |-> "assets", assets |-> a] : a \in SeqsUpTo(assets, MaxLines)}

\* the asset loop with a fallback to the first asset when none matches
AssetLoopFallback(needle, assets, i, download_url) ==
    LET bad == {k \in i..Len(assets) : ~assets[k].has_url}
        hits == {k \in i..Len(assets) : IsSub(needle, assets[k].url)}
    IN  IF bad # {} THEN [raised |-> TRUE, download_url |-> download_url]
        ELSE IF hits # {} THEN [raised |-> FALSE, download_url |-> assets[Max(hits)].url]
        ELSE IF i <= Len(assets) THEN [raised |-> FALSE, download_url |-> assets[i].url]
        ELSE [raised |-> FALSE, download_url |-> download_url]

RECURSIVE AssetLoop(_, _, _, _)
\* for asset in assets: if needle in asset["browser_download_url"]: download_url = ...
AssetLoop(needle, assets, i, download_url) ==
    IF i > Len(assets) THEN [raised |-> FALSE, download_url |-> download_url]
    ELSE IF ~assets[i].has_url THEN [raised |-> TRUE, download_url |-> download_url]
    ELSE AssetLoop(needle, assets, i + 1,
                   IF IsSub(needle, assets[i].url) THEN assets[i].url ELSE download_url)

\* get_metadata_and_check_license without the test of page.error
JsonGetMetadataNoErrorCheck(needle, result, slf, reqs) ==
    IF result.error THEN Crash(slf, reqs, <<>>, "AttributeError")
    ELSE IF result.buffer.kind = "notjson" THEN Error(slf, reqs, <<>>, MsgCantParse)
    ELSE IF result.buffer.kind = "noassets" THEN Crash(slf, reqs, <<>>, "KeyError")
    ELSE LET r == AssetLoop(needle, result.buffer.assets, 1, None)
         IN  IF r.raised THEN Crash(slf, reqs, <<>>, "KeyError")
             ELSE IF r.download_url = None THEN Error(slf, reqs, <<>>, MsgCantParse)
             ELSE Out(slf, Append(reqs, DownloadItem(r.download_url, NoChecksum)),
                      <<>>, 1, "ok", "")

\* the body of get_metadata_and_check_license shared by the four classes
JsonGetMetadata(needle, result, slf, reqs) ==
    IF result.error THEN Error(slf, reqs, <<>>, MsgPageError)
    ELSE IF result.buffer.kind = "notjson" THEN Error(slf, reqs, <<>>, MsgCantParse)
    ELSE IF result.buffer.kind = "noassets" THEN Crash(slf, reqs, <<>>, "KeyError")
    ELSE LET r == AssetLoop(needle, result.buffer.assets, 1, None)
         IN  IF r.raised THEN Crash(slf, reqs, <<>>, "KeyError")
             ELSE IF r.download_url = None THEN Error(slf, reqs, <<>>, MsgCantParse)
             ELSE Out(slf, Append(reqs, DownloadItem(r.download_url, NoChecksum)),
                      <<>>, 1, "ok", "")

\* arch_trans with the two values exchanged
SuperpowersArchTransSwapped(a) == IF a = "amd64" THEN "ia32" ELSE "x64"

\* Superpowers.arch_trans
SuperpowersArchTrans(a) == IF a = "amd64" THEN "x64" ELSE "ia32"

SuperpowersUrl(v, os, a) ==
    <<"https://github.com/superpowers/superpowers-app/releases/download/", v,
      "/superpowers-", os, a, ".", "zip">>

SuperpowersAssets ==
    { Asset(SuperpowersUrl("v1", "linux-", "x64")),
      Asset(SuperpowersUrl("v2", "linux-", "x64")),
      Asset(SuperpowersUrl("v1", "linux-", "ia32")),
      Asset(SuperpowersUrl("v1", "win-", "x64")),
      AssetNoUrl }

SuperpowersGetMetadataAndCheckLicense(result, slf, reqs) ==
    JsonGetMetadata(<<"linux-", SuperpowersArchTrans(arch)>>, result, slf, reqs)

\* Processing.arch_trans
ProcessingArchTrans(a) == IF a = "amd64" THEN "64" ELSE "32"

ProcessingUrl(v, os, a) ==
    <<"https://github.com/processing/processing/releases/download/", v,
      "/processing-", os, a, ".", "tgz">>

ProcessingAssets ==
    { Asset(ProcessingUrl("v1", "linux", "64")),
      Asset(ProcessingUrl("v2", "linux", "64")),
      Asset(ProcessingUrl("v1", "linux", "32")),
      Asset(ProcessingUrl("v1", "windows", "64")),
      AssetNoUrl }

ProcessingGetMetadataAndCheckLicense(result, slf, reqs) ==
    JsonGetMetadata(<<"linux", ProcessingArchTrans(arch)>>, result, slf, reqs)

LightTableUrl(v, os) ==
    <<"https://github.com/LightTable/LightTable/releases/download/", v,
      "/lighttable-", os, ".", "tar.gz">>

LightTableAssets ==
    { Asset(LightTableUrl("v1", "linux")),
      Asset(LightTableUrl("v2", "linux")),
      Asset(LightTableUrl("v1", "mac")),
      AssetNoUrl }

LightTableGetMetadataAndCheckLicense(result, slf, reqs) ==
    JsonGetMetadata(<<"linux">>, result, slf, reqs)

AtomUrl(v, ext) ==
    <<"https://github.com/atom/atom/releases/download/", v, "/atom-amd64", ".", ext>>

AtomAssets ==
    { Asset(AtomUrl("v1", "tar.gz")),
      Asset(AtomUrl("v2", "tar.gz")),
      Asset(AtomUrl("v1", "deb")),
      AssetNoUrl }

AtomGetMetadataAndCheckLicense(result, slf, reqs) ==
    JsonGetMetadata(<<"tar.gz">>, result, slf, reqs)

JsonTools == {"Superpowers", "Processing", "LightTable", "Atom"}

JsonGetMetadataAndCheckLicense(t, result, slf, reqs) ==
    CASE t = "Superpowers" -> SuperpowersGetMetadataAndCheckLicense(result, slf, reqs)
      [] t = "Processing" -> ProcessingGetMetadataAndCheckLicense(result, slf, reqs)
      [] t = "LightTable" -> LightTableGetMetadataAndCheckLicense(result, slf, reqs)
      [] t = "Atom" -> AtomGetMetadataAndCheckLicense(result, slf, reqs)

----------------------------------------------------------------------------
\* BaseJetBrains (PyCharm)

JetBrainsRelease(v) ==
    [has_linux |-> TRUE,
     link |-> <<"https://download.jetbrains.com/python/pycharm-community-", v, ".", "tar.gz">>,
     checksumLink |-> <<"https://download.jetbrains.com/python/pycharm-community-", v,
                        ".", "tar.gz", ".sha256">>]

\* a release without downloads for linux
JetBrainsNoLinux == [has_linux |-> FALSE, link |-> None, checksumLink |-> None]

JetBrainsReleases == {JetBrainsRelease("v1"), JetBrainsRelease("v2"), JetBrainsNoLinux}

\* body of the releases page: not JSON, the empty object, or {code: [releases]}
JetBrainsBodies ==
    {[kind |-> "notjson", assets |-> <<>>], [kind |-> "empty", assets |-> <<>>]}
    \cup {[kind |-> "releases", assets |-> r] : r \in SeqsUpTo(JetBrainsReleases, MaxLines)}

JetBrainsGetMetadataAndCheckLicense(result, slf, reqs) ==
    IF result.error THEN Error(slf, reqs, <<>>, MsgPageError)
    ELSE IF result.buffer.kind = "notjson" THEN Error(slf, reqs, <<>>, MsgCantParse)
    ELSE IF result.buffer.kind = "empty" THEN Crash(slf, reqs, <<>>, "KeyError")
    ELSE IF result.buffer.assets = <<>>
         THEN Error(slf, reqs, <<>>,
                    IF IsSub(<<"&type=eap">>, target.download_page)
                    THEN "No EAP version available." ELSE "No Stable version available.")
    ELSE LET download_list == result.buffer.assets[1]
         IN  IF ~download_list.has_linux THEN Crash(slf, reqs, <<>>, "KeyError")
             ELSE Out([slf EXCEPT !.download_url = download_list.link], reqs,
                      <<Batch(<<download_list.checksumLink>>, "checksum_downloaded")>>,
                      0, "ok", "")

\* checksum_downloaded(results), the closure of get_metadata_and_check_license
JetBrainsChecksumDownloaded(res, slf, reqs) ==
    IF res.error THEN Error(slf, reqs, <<>>, "checksum_result.error")
    ELSE IF res.buffer = <<>> THEN Crash(slf, reqs, <<>>, "IndexError")
    ELSE Out(slf,
             Append(reqs, [DownloadItem(slf.download_url, Checksum("sha256", res.buffer[1]))
                           EXCEPT !.ignore_encoding = TRUE]),
             <<>>, 1, "ok", "")

----------------------------------------------------------------------------
\* Arduino

\* How the process was started: "user" (not root, SUDO_UID unset, USER is the
\* user), "sudo" (root through sudo, SUDO_UID is the user's) or "root" (root,
\* SUDO_UID unset); and the members of the dialout group.
Environs ==
    [login : {"user", "sudo", "root"}, dialout : SUBSET {"root", "user"}]

\* the person who started the install
InvokingUser(env) == IF env.login = "root" THEN "root" ELSE "user"

\* self._current_user: the assignment under `if os.geteuid() != 0` is followed by
\* the unconditional pwd.getpwuid(int(os.getenv("SUDO_UID", default=0))).pw_name
ArduinoCurrentUser(env) == IF env.login = "sudo" THEN "user" ELSE "root"

\* self.was_in_arduino_group: the for/else over grp.getgrall()
ArduinoWasInGroup(env) == ArduinoCurrentUser(env) \in env.dialout

\* need_root_access given to BaseInstaller.__init__
ArduinoNeedRootAccess(was_in_arduino_group) == ~was_in_arduino_group

MsgLogout == "You need to logout and login again for your installation to work"

\* self.bits
ArduinoBits == IF Machine = "i686" THEN "32" ELSE "64"

\* tokens that match [\d\.\-r]+
ArduinoVersions == {"1.8.1", "1.6.9-r2"}

Anchor(href, text) == [href |-> href, text |-> text]

ArduinoHref(v, bits) ==
    <<"//", "downloads.arduino.cc/", "arduino-", v, "-linux", bits, ".", "tar.xz">>

ArduinoChecksumHref == <<"//", "downloads.arduino.cc/", "arduino-1.8.1.md5sum.txt">>

ArduinoAnchors ==
    { Anchor(ArduinoHref("1.8.1", "64"), "Linux 64 bits"),
      Anchor(ArduinoHref("1.8.1", "32"), "Linux 32 bits"),
      Anchor(ArduinoHref("nightly", "64"), "Linux 64 bits"),
      Anchor(ArduinoChecksumHref, "Checksums"),
      Anchor(<<"//", "www.arduino.cc/", "en/Guide">>, "Getting Started") }

\* re.compile(r'arduino-[\d\.\-r]+-linux' + self.bits + '.tar.xz$').search(href)
ArduinoLinkMatch(href) ==
    \E v \in ArduinoVersions :
        EndsWith(href, <<"arduino-", v, "-linux", ArduinoBits, ".", "tar.xz">>)

\* soup.find('a', ...): the first anchor in document order, 0 for None
FirstAnchor(anchors, matching) ==
    LET hits == {i \in 1..Len(anchors) : anchors[i] \in matching}
    IN  IF hits = {} THEN 0 ELSE Min(hits)

MsgNoDownloadLink == "Can't parse the download link"
MsgNoChecksumLink == "Can't parse the checksum link"

\* get_metadata_and_check_license that hands the batch to the Download Center
\* without looking at what was scraped
ArduinoGetMetadataIssuesAlways(result, slf, reqs) ==
    IF result.error THEN Error(slf, reqs, <<>>, MsgPageError)
    ELSE Out(slf, reqs,
             <<Batch(<<slf.scraped_download_url, slf.scraped_checksum_url>>,
                     "prepare_to_download_archive")>>,
             0, "ok", "")

ArduinoGetMetadataAndCheckLicense(result, slf, reqs) ==
    IF result.error THEN Error(slf, reqs, <<>>, MsgPageError)
    ELSE LET anchors == result.buffer
             d == FirstAnchor(anchors, {a \in Range(anchors) : ArduinoLinkMatch(a.href)})
             c == FirstAnchor(anchors, {a \in Range(anchors) : a.text = "Checksums"})
             s1 == IF d = 0 THEN slf
                   ELSE IF c = 0 THEN [slf EXCEPT !.scraped_download_url = anchors[d].href]
                   ELSE [slf EXCEPT
                           !.scraped_download_url = <<"http:">> \o anchors[d].href,
                           !.scraped_checksum_url = <<"http:">> \o anchors[c].href]
         IN  IF s1.scraped_download_url \in {None, <<>>}
             THEN Error(s1, reqs, <<>>, MsgNoDownloadLink)
             ELSE IF s1.scraped_checksum_url \in {None, <<>>}
             THEN Error(s1, reqs, <<>>, MsgNoChecksumLink)
             ELSE Out(s1, reqs,
                      <<Batch(<<s1.scraped_download_url, s1.scraped_checksum_url>>,
                              "prepare_to_download_archive")>>,
                      0, "ok", "")

\* lines of the checksum page: digest and file name
ArduinoSum(digest, v, bits) ==
    <<digest, "arduino-", v, "-linux", bits, ".", "tar.xz">>

ArduinoChecksumPages ==
    { <<>>,
      <<ArduinoSum("md5a", "1.8.1", "32"), ArduinoSum("md5b", "1.8.1", "64")>>,
      <<ArduinoSum("md5c", "nightly", "64")>> }

\* re.search(r'^(\S+)\s+arduino-[\d\.\-r]+-linux' + self.bits + '.tar.xz$', text, re.M)
ArduinoChecksumSearch(lines) ==
    LET hits == {i \in 1..Len(lines) :
                   \E v \in ArduinoVersions :
                       Tail(lines[i]) = <<"arduino-", v, "-linux", ArduinoBits, ".", "tar.xz">>}
    IN  IF hits = {} THEN None ELSE <<lines[Min(hits)][1]>>

\* the page behind the download link: with or without the JUST DOWNLOAD button
ArduinoDownloadPages ==
    { [button |-> TRUE, href |-> <<"/download_handler.php?f=", "/arduino-1.8.1-linux.tar.xz">>,
       final_url |-> <<"http://www.arduino.cc/en/Main/Donate">>, cookies |-> <<"session">>],
      [button |-> TRUE, href |-> <<"/download_handler.php?f=", "/arduino-1.6.9-r2-linux.tar.xz">>,
       final_url |-> <<"http://www.arduino.cc/en/Main/Donate">>, cookies |-> <<"visitor">>],
      [button |-> FALSE, href |-> None,
       final_url |-> <<"http://www.arduino.cc/en/Main/Donate">>, cookies |-> <<"session">>] }

\* parse.urljoin(base_url, href) for an absolute path
UrlJoin(base_url, href) == <<"http://www.arduino.cc">> \o href

\* what the adduser subprocess does
AddUserOutcomes == {"ok", "CalledProcessError", "OSError"}

\* _add_to_group(user, group): "True", "False", or the exception that leaves it
AddToGroup(outcome) ==
    CASE outcome = "ok" -> "True"
      [] outcome = "CalledProcessError" -> "False"
      [] OTHER -> outcome

\* with as_root(): the effective user once the block is left, by return or by
\* an exception that leaves it
AsRootExit(how) == "user"

\* a privileged action called in the installer's own process
PrivilegedInMainProcess(action) == "main"

\* executor.submit(action, ...) in a ProcessPoolExecutor(max_workers=1): the
\* process in which the action and its as_root block run
PrivilegedProcess(action) == "worker"

\* one run of a privileged action as the run records it
PrivilegedRun(action, result, stage) ==
    [action |-> action, result |-> result, stage |-> stage,
     process |-> PrivilegedProcess(action),
     euid_after |-> AsRootExit(IF result \in {"True", "False"} THEN "return" ELSE "raise")]

\* a callback's effects together with the privileged action it ran in a worker
WithPrivileged(out, action, result) ==
    [self |-> out.self, reqs |-> out.reqs, issue |-> out.issue, start |-> out.start,
     end |-> out.end, msg |-> out.msg,
     priv |-> <<[action |-> action, result |-> result]>>]

ArduinoPrepareToDownloadArchive(dl, ck, adduser, slf, reqs) ==
    IF dl.error THEN Error(slf, reqs, <<>>, "Error fetching download page")
    ELSE IF ck.error THEN Error(slf, reqs, <<>>, "Error fetching checksums")
    ELSE IF ArduinoChecksumSearch(ck.buffer) = None
         THEN Error(slf, reqs, <<>>, "Can't find a checksum.")
    ELSE IF ~dl.buffer.button THEN Error(slf, reqs, <<>>, "Can't parse download button.")
    ELSE LET checksum == ArduinoChecksumSearch(ck.buffer)[1]
             item == [DownloadItem(UrlJoin(dl.buffer.final_url, dl.buffer.href),
                                   Checksum("md5", checksum))
                      EXCEPT !.cookies = dl.buffer.cookies]
             f == AddToGroup(adduser)
         IN  IF slf.was_in_arduino_group THEN Out(slf, <<item>>, <<>>, 1, "ok", "")
             ELSE WithPrivileged(
                      IF f = "True" THEN Out(slf, <<item>>, <<>>, 1, "ok", "")
                      ELSE IF f = "False" THEN Error(slf, <<item>>, <<>>, "")
                      ELSE Crash(slf, <<item>>, <<>>, f),
                      "_add_to_group", f)

----------------------------------------------------------------------------
\* BaseNetBeans (flavour "")

MsgSyntaxNb == "The download page changed its syntax or is not parsable"

NbLocation == "var PAGE_ARTIFACTS_LOCATION = \"/images_www/v6/download/"

\* lines of zip.html, in tokens
NbPageLines ==
    { <<NbLocation, "8.2", "/final", "/\";">>,
      <<NbLocation, "8.1", "/final", "/\";">>,
      <<NbLocation, "/\";">>,
      <<"<html>">> }

\* preg = re.compile(".*/images_www/v6/download/.*")
NbVersionMatch(line) == \E i \in 1..Len(line) : line[i] = NbLocation

\* line.replace(...).replace("/\";", "").replace('/final', '').strip()
NbVersionOf(line) == ReSub({NbLocation, "/\";", "/final"}, line)

RECURSIVE NbVersionLoop(_, _, _)
\* self.version after the loop; unset when no line matched
NbVersionLoop(lines, i, acc) ==
    IF i > Len(lines) THEN acc
    ELSE NbVersionLoop(lines, i + 1,
             IF NbVersionMatch(lines[i])
             THEN [set |-> TRUE, version |-> NbVersionOf(lines[i])] ELSE acc)

NbFilesUrl(version) ==
    <<"https://netbeans.org/images_www/v6/download/">> \o version \o <<"/final/js/files.js">>

NetBeansGetMetadataAndCheckLicense(result, slf, reqs) ==
    IF result.error THEN Error(slf, reqs, <<>>, MsgSyntaxNb)
    ELSE LET r == NbVersionLoop(result.buffer, 1, [set |-> FALSE, version |-> None])
             s1 == [slf EXCEPT !.version = r.version]
         IN  IF ~r.set THEN Crash(slf, reqs, <<>>, "AttributeError")
             ELSE IF r.version = <<>> THEN Error(s1, reqs, <<>>, "Could not determine latest version")
             ELSE Out([s1 EXCEPT !.version_download_page = NbFilesUrl(r.version)], reqs,
                      <<Batch(<<NbFilesUrl(r.version)>>, "parse_download_page_callback")>>,
                      0, "ok", "")

NbStamps == {"201609300101", "201610071157"}

\* add_file("zip/netbeans-<v>-<stamp>.zip", <size>, "<sha256>", ...);
NbAddFile(v, stamp, rest) ==
    <<"add_file(", "\"", "zip/netbeans-", v, "-", stamp, ".zip", "\"">> \o rest \o <<");">>

NbFilesLines ==
    { NbAddFile("8.2", "201609300101", <<", ", "1024", ", ", "\"", "sha256a", "\"">>),
      NbAddFile("8.2", "201610071157", <<", ", "2048", ", ", "\"", "sha256b", "\"">>),
      NbAddFile("8.1", "201609300101", <<", ", "1024", ", ", "\"", "sha256c", "\"">>),
      NbAddFile("8.2", "201609300101", <<", ", "1024">>),
      <<"// files">> }

NbFiles == SeqsUpTo(NbFilesLines, MaxFiles)

\* preg.match(line), flavour ''
NbFileMatch(version, line) ==
    \E stamp \in NbStamps :
        StartsWith(line, <<"add_file(", "\"", "zip/netbeans-">> \o version
                         \o <<"-", stamp, ".zip", "\"">>)

RECURSIVE Split(_, _)
\* s.split(sep) for a one-token separator
Split(s, sep) ==
    LET at == {i \in 1..Len(s) : s[i] = sep}
    IN  IF at = {} THEN <<s>>
        ELSE <<SubSeq(s, 1, Min(at) - 1)>> \o Split(SubSeq(s, Min(at) + 1, Len(s)), sep)

RECURSIVE NbUrlLoop(_, _, _, _)
\* url_string after the loop; unbound when no line matched
NbUrlLoop(version, lines, i, acc) ==
    IF i > Len(lines) THEN acc
    ELSE NbUrlLoop(version, lines, i + 1,
             IF NbFileMatch(version, lines[i])
             THEN [set |-> TRUE, url_string |-> ReSub({"add_file(", ");", "\""}, lines[i])]
             ELSE acc)

NbBaseUrl == "http://download.netbeans.org/netbeans"

NetBeansParseDownloadPageCallback(res, slf, reqs) ==
    IF res.error THEN Error(slf, reqs, <<>>, MsgSyntaxNb)
    ELSE LET r == NbUrlLoop(slf.version, res.buffer, 1, [set |-> FALSE, url_string |-> None])
         IN  IF ~r.set THEN Crash(slf, reqs, <<>>, "UnboundLocalError")
             ELSE IF r.url_string = <<>> THEN Error(slf, reqs, <<>>, MsgSyntaxNb)
             ELSE LET string_array == Split(r.url_string, ", ")
                  IN  IF Len(string_array) < 3 THEN Error(slf, reqs, <<>>, MsgSyntaxNb)
                      ELSE Out(slf,
                               Append(reqs,
                                   DownloadItem(<<NbBaseUrl, "/">> \o slf.version
                                                \o <<"/final/">> \o string_array[1],
                                                Checksum("sha256", string_array[3][1]))),
                               <<>>, 1, "ok", "")

TwoStageTools == {"Eclipse", "STS", "JetBrains", "Unity3D", "Arduino", "NetBeans"}

----------------------------------------------------------------------------
\* After start_download_and_install: download, extraction, post_install

\* what os.chown / os.chmod do to the sandbox binary
SetuidOutcomes == {"ok", "PermissionError", "FileNotFoundError"}

\* _chrome_sandbox_setuid(path): "True" or "False"
ChromeSandboxSetuid(outcome) == IF outcome = "ok" THEN "True" ELSE "False"

ArchiveMarker == "__ARCHIVE_BEGINS_HERE__"

\* lines of the downloaded installer script, in tokens
UnityScriptLines ==
    { <<ArchiveMarker>>,
      <<"echo ", ArchiveMarker>>,
      <<"payload">> }

UnityScripts == SeqsUpTo(UnityScriptLines, MaxScript)

\* what the pipeline downloaded for the artifact request
Artifacts(t) == IF t = "Unity3D" THEN UnityScripts ELSE {<<<<"archive">>>>}

RECURSIVE UnityFindArchiveAnywhere(_, _)
\* the loop testing `marker in line`
UnityFindArchiveAnywhere(lines, i) ==
    IF i > Len(lines) THEN i
    ELSE IF \E k \in 1..Len(lines[i]) : lines[i][k] = ArchiveMarker THEN i + 1
    ELSE UnityFindArchiveAnywhere(lines, i + 1)

RECURSIVE UnityFindArchive(_, _)
\* for line in fds[0]: if line.startswith(marker): break
\* the index of the next line to read when the loop is left
UnityFindArchive(lines, i) ==
    IF i > Len(lines) THEN i
    ELSE IF StartsWith(lines[i], <<ArchiveMarker>>) THEN i + 1
    ELSE UnityFindArchive(lines, i + 1)

\* the extractor reads the stream from its position to the end
Extract(lines, pos) == SubSeq(lines, pos, Len(lines))

\* Unity3D.decompress_and_install(fds): what super() gets to unpack
UnityDecompressAndInstall(lines) == Extract(lines, UnityFindArchive(lines, 1))

\* names of temporary files of the Download Center, directory first
ArchiveFd == <<"/tmp/", "tmpa1">>
LogoFd == <<"/tmp/", "tmpb2", ".", "svg">>
PlainFd == <<"/tmp/", "tmpc3">>

\* the files the pipeline hands to decompress_and_install
Fds(t) ==
    IF t = "Twine"
    THEN {<<LogoFd, ArchiveFd>>, <<ArchiveFd, LogoFd>>, <<ArchiveFd, PlainFd>>, <<ArchiveFd>>}
    ELSE {<<ArchiveFd>>}

\* os.path.basename(name)
Basename(name) == Tail(name)

MsgNoIcon == "We couldn't download the Twine icon"

\* decompress_and_install that extracts whether or not the logo was downloaded
TwineDecompressWithoutIcon(names, lines, install_path) ==
    [end |-> "ok", msg |-> "", unpacked |-> Extract(lines, 1), renamed |-> <<>>]

\* Twine.decompress_and_install(fds): the for/else over fds, super(), os.rename
TwineDecompressAndInstall(names, lines, install_path) ==
    LET svg == {i \in 1..Len(names) : EndsWith(names[i], <<".", "svg">>)}
    IN  IF svg = {}
        THEN [end |-> "error", msg |-> MsgNoIcon, unpacked |-> None, renamed |-> <<>>]
        ELSE LET orig_icon_name == Basename(names[Min(svg)])
             IN  [end |-> "ok", msg |-> "", unpacked |-> Extract(lines, 1),
                  renamed |-> <<[src |-> install_path \o orig_icon_name,
                                 dst |-> install_path \o <<"logo.svg">>]>>]

DecompressAndInstall(t, lines) ==
    IF t = "Unity3D" THEN UnityDecompressAndInstall(lines) ELSE Extract(lines, 1)

\* post_install creating the launcher whatever the worker returned
UnityPostInstallIgnoringResult(f) == [end |-> "ok", launcher |-> 1]

\* Unity3D.post_install given the worker's result f: return_main_screen(status_code=1)
\* when it is not true, create_launcher otherwise
UnityPostInstall(f) ==
    IF f # "True" THEN [end |-> "error", launcher |-> 0]
    ELSE [end |-> "ok", launcher |-> 1]

\* self.icon_url
EclipseIconUrl == <<"https://www.eclipse.org/downloads/", "images/", "java.png">>

\* the callbacks decorated with @MainLoop.in_mainloop_thread
InMainloopThread ==
    {"get_metadata", "get_metadata_and_check_license", "get_sha_and_start_download",
     "get_url_and_start_download", "prepare_to_download_archive",
     "parse_download_page_callback"}

\* the single thread of the main loop
MainLoopThread == "mainloop"

\* the thread on which the Download Center hands a completed batch to on_done:
\* the completion is reported back on the main loop
DownloadCenterThread == MainLoopThread

\* a callback run on the I/O thread that finished the last download of its batch
ThreadOfIoWorker(callback) == "download_center"

\* the thread a completion callback runs on: the main loop when decorated,
\* the thread of its caller otherwise
ThreadOf(callback) ==
    IF callback \in InMainloopThread THEN MainLoopThread ELSE DownloadCenterThread

----------------------------------------------------------------------------
\* The run

Tools == TwoStageTools \cup BaseTools \cup JsonTools

OnlyOnArchs(t) ==
    IF t \in {"Unity3D", "LightTable", "Atom"} THEN {"amd64"} ELSE {"i386", "amd64"}

PageBuffers(t) ==
    CASE t = "Eclipse" -> SeqsUpTo(EclipseLines, MaxLines)
      [] t = "STS" -> SeqsUpTo(StsLines, MaxLines)
      [] t = "Unity3D" -> SeqsUpTo(UnityLines, MaxLines)
      [] t = "Stencyl" -> SeqsUpTo(StencylLines, MaxLines)
      [] t = "Twine" -> SeqsUpTo(TwineLines, MaxLines)
      [] t = "SublimeText" -> SeqsUpTo(SublimeLines, MaxLines)
      [] t = "VisualStudioCode" -> SeqsUpTo(VSCodeLines, MaxLines)
      [] t = "Superpowers" -> JsonBodies(SuperpowersAssets)
      [] t = "Processing" -> JsonBodies(ProcessingAssets)
      [] t = "LightTable" -> JsonBodies(LightTableAssets)
      [] t = "Atom" -> JsonBodies(AtomAssets)
      [] t = "JetBrains" -> JetBrainsBodies
      [] t = "Arduino" -> SeqsUpTo(ArduinoAnchors, MaxLines)
      [] t = "NetBeans" -> SeqsUpTo(NbPageLines, MaxLines)

\* buffer of a failed fetch: never read by the model
NoBuffer == [kind |-> "none", assets |-> <<>>]

Pages(t) ==
    {[error |-> TRUE, buffer |-> NoBuffer]}
    \cup {[error |-> FALSE, buffer |-> b] : b \in PageBuffers(t)}

\* Twine.__init__ adds the logo to the requests
InitRequests(t) == IF t = "Twine" THEN <<DownloadItem(TwineLogo, NoChecksum)>> ELSE <<>>

Init ==
    /\ tool \in Tools
    /\ arch \in OnlyOnArchs(tool)
    /\ page \in Pages(tool)
    /\ args \in (IF HasVariant(tool) THEN BOOLEAN ELSE {FALSE})
    /\ target = TargetInit(tool)
    /\ pc = "init"
    /\ environ \in (IF tool = "Arduino" THEN Environs
                    ELSE {[login |-> "user", dialout |-> {}]})
    /\ self = SelfInit(tool = "Arduino" /\ ArduinoWasInGroup(environ))
    /\ displayed = <<>>
    /\ fds = <<>>
    /\ renamed = <<>>
    /\ download_requests = InitRequests(tool)
    /\ inflight = <<>>
    /\ fetched = <<>>
    /\ delivered = <<>>
    /\ nstart = 0
    /\ status = 0
    /\ errmsg = ""
    /\ crashed = ""
    /\ threads = {}
    /\ privileged = <<>>
    /\ artifact = <<>>
    /\ unpacked = None
    /\ launcher = 0
    /\ icon_saved = FALSE

RECURSIVE Flatten(_)
Flatten(batches) ==
    IF batches = <<>> THEN <<>> ELSE Head(batches).urls \o Flatten(Tail(batches))

RemoveAt(s, i) == SubSeq(s, 1, i - 1) \o SubSeq(s, i + 1, Len(s))

\* UI.return_main_screen(status_code=1) ends the run: nothing is dispatched after it.
Running == pc \in {"wait_page", "resolving", "started", "fetched", "extracted", "done"}

\* the privileged actions a callback ran, each with the stage it ran in
OutPrivileged(out) ==
    IF "priv" \in DOMAIN out
    THEN [k \in 1..Len(out.priv) |->
             PrivilegedRun(out.priv[k].action, out.priv[k].result, pc)]
    ELSE <<>>

\* The state after a callback that did `out`, with `rest` still in flight.
Apply(out, rest) ==
    /\ self' = out.self
    /\ download_requests' = out.reqs
    /\ inflight' = rest \o out.issue
    /\ fetched' = fetched \o Flatten(out.issue)
    /\ nstart' = nstart + out.start
    /\ status' = IF out.end = "error" THEN 1 ELSE status
    /\ errmsg' = IF out.end = "error" THEN out.msg ELSE errmsg
    /\ crashed' = IF out.end = "crash" THEN out.msg ELSE crashed
    /\ pc' = IF out.end = "error" THEN "failed"
             ELSE IF pc \in {"started", "fetched", "extracted", "done"} THEN pc
             ELSE IF out.start > 0 THEN "started"
             ELSE "resolving"
    /\ privileged' = privileged \o OutPrivileged(out)
    /\ UNCHANGED <<environ, displayed, fds, renamed,
                   tool, arch, page, args, target, artifact, unpacked, launcher, icon_saved>>

\* the callback given for the download page
PageCallbackName(t) == IF t = "Eclipse" THEN "get_metadata" ELSE "get_metadata_and_check_license"

\* The page callback of the tool.
PageCallback(out) ==
    /\ pc = "wait_page"
    /\ delivered' = delivered
    /\ threads' = threads \cup {[callback |-> PageCallbackName(tool),
                                 thread |-> ThreadOf(PageCallbackName(tool))]}
    /\ Apply(out, inflight)

\* first whitespace-delimited token of a fetched checksum file, "" when it has none
Digest(res) == IF res.error \/ res.buffer = <<>> THEN "" ELSE res.buffer[1]

\* The callback of the i-th batch in flight; res: a result of the batch carries an
\* error; digest: the digest the batch's checksum file gave ("" when none).
BatchCallback(i, res, digest, out) ==
    /\ Running /\ pc \notin {"init", "wait_page"}
    /\ delivered' = Append(delivered, [on_done |-> inflight[i].on_done, error |-> res,
                                       url |-> inflight[i].urls[1], digest |-> digest])
    /\ threads' = threads \cup {[callback |-> inflight[i].on_done,
                                 thread |-> ThreadOf(inflight[i].on_done)]}
    /\ Apply(out, RemoveAt(inflight, i))

\* run_for(args), then the fetch of the download page is issued
run_for ==
    /\ pc = "init"
    /\ target' = RunFor(tool, args, target)
    /\ pc' = "wait_page"
    /\ UNCHANGED <<environ, displayed, fds, renamed,
                   tool, arch, page, args, self, download_requests, inflight, fetched,
                   delivered, nstart, status, errmsg, crashed, threads, privileged,
                   artifact, unpacked, launcher, icon_saved>>

Eclipse_get_metadata ==
    /\ tool = "Eclipse"
    /\ PageCallback(EclipseGetMetadata(page, self, download_requests))

Eclipse_get_sha_and_start_download ==
    /\ tool = "Eclipse"
    /\ \E i \in 1..Len(inflight) :
         /\ inflight[i].on_done = "get_sha_and_start_download"
         /\ \E res \in ChecksumResults(inflight[i].urls[1]) :
              BatchCallback(i, res.error, Digest(res),
                  EclipseGetShaAndStartDownload(res, self, download_requests))

STS_get_metadata_and_check_license ==
    /\ tool = "STS"
    /\ PageCallback(StsGetMetadataAndCheckLicense(page, self, download_requests))

STS_get_sha_and_start_download ==
    /\ tool = "STS"
    /\ \E i \in 1..Len(inflight) :
         /\ inflight[i].on_done = "get_sha_and_start_download"
         /\ \E res \in ChecksumResults(inflight[i].urls[1]) :
              BatchCallback(i, res.error, Digest(res),
                  StsGetShaAndStartDownload(res, self, download_requests))

Unity3D_get_metadata_and_check_license ==
    /\ tool = "Unity3D"
    /\ PageCallback(UnityGetMetadataAndCheckLicense(page, self, download_requests))

Unity3D_get_url_and_start_download ==
    /\ tool = "Unity3D"
    /\ \E i \in 1..Len(inflight) :
         /\ inflight[i].on_done = "get_url_and_start_download"
         /\ \E res \in UnityResults(inflight[i].urls[1]) :
              BatchCallback(i, res.error, "",
                  UnityGetUrlAndStartDownload(res, self, download_requests))

Base_get_metadata_and_check_license ==
    /\ tool \in BaseTools
    /\ PageCallback(BaseGetMetadataAndCheckLicense(tool, page, self, download_requests))

Json_get_metadata_and_check_license ==
    /\ tool \in JsonTools
    /\ PageCallback(JsonGetMetadataAndCheckLicense(tool, page, self, download_requests))

JetBrains_get_metadata_and_check_license ==
    /\ tool = "JetBrains"
    /\ PageCallback(JetBrainsGetMetadataAndCheckLicense(page, self, download_requests))

JetBrains_checksum_downloaded ==
    /\ tool = "JetBrains"
    /\ \E i \in 1..Len(inflight) :
         /\ inflight[i].on_done = "checksum_downloaded"
         /\ \E res \in ChecksumResults(inflight[i].urls[1]) :
              BatchCallback(i, res.error, Digest(res),
                  JetBrainsChecksumDownloaded(res, self, download_requests))

Arduino_get_metadata_and_check_license ==
    /\ tool = "Arduino"
    /\ PageCallback(ArduinoGetMetadataAndCheckLicense(page, self, download_requests))

Arduino_prepare_to_download_archive ==
    /\ tool = "Arduino"
    /\ \E i \in 1..Len(inflight) :
         /\ inflight[i].on_done = "prepare_to_download_archive"
         /\ \E dl \in {Result(inflight[i].urls[1], TRUE, NoBuffer)}
                       \cup {Result(inflight[i].urls[1], FALSE, b) : b \in ArduinoDownloadPages},
               ck \in {Result(inflight[i].urls[2], TRUE, <<>>)}
                       \cup {Result(inflight[i].urls[2], FALSE, b) : b \in ArduinoChecksumPages},
               adduser \in AddUserOutcomes :
              BatchCallback(i, dl.error \/ ck.error, "",
                  ArduinoPrepareToDownloadArchive(dl, ck, adduser, self, download_requests))

NetBeans_get_metadata_and_check_license ==
    /\ tool = "NetBeans"
    /\ PageCallback(NetBeansGetMetadataAndCheckLicense(page, self, download_requests))

NetBeans_parse_download_page_callback ==
    /\ tool = "NetBeans"
    /\ \E i \in 1..Len(inflight) :
         /\ inflight[i].on_done = "parse_download_page_callback"
         /\ \E res \in {Result(inflight[i].urls[1], TRUE, <<>>)}
                        \cup {Result(inflight[i].urls[1], FALSE, b) : b \in NbFiles} :
              BatchCallback(i, res.error, "",
                  NetBeansParseDownloadPageCallback(res, self, download_requests))

\* The pipeline fetched and verified the artifact, or failed to.
download_done ==
    /\ pc = "started"
    /\ \/ \E a \in Artifacts(tool), names \in Fds(tool) :
            /\ artifact' = a
            /\ fds' = names
            /\ pc' = "fetched"
            /\ UNCHANGED <<status, errmsg>>
       \/ /\ status' = 1
          /\ errmsg' = "download failed"
          /\ pc' = "failed"
          /\ UNCHANGED <<artifact, fds>>
    /\ UNCHANGED <<environ, displayed, renamed,
                   tool, arch, page, args, target, self, download_requests, inflight,
                   fetched, delivered, nstart, crashed, threads, privileged, unpacked,
                   launcher, icon_saved>>

\* Twine.decompress_and_install(fds)
Twine_decompress_and_install ==
    /\ tool = "Twine"
    /\ pc = "fetched"
    /\ LET out == TwineDecompressAndInstall(fds, artifact, target.install_path)
       IN  /\ unpacked' = out.unpacked
           /\ renamed' = renamed \o out.renamed
           /\ status' = IF out.end = "error" THEN 1 ELSE status
           /\ errmsg' = IF out.end = "error" THEN out.msg ELSE errmsg
           /\ pc' = IF out.end = "error" THEN "failed" ELSE "extracted"
    /\ UNCHANGED <<environ, displayed, fds,
                   tool, arch, page, args, target, self, download_requests, inflight,
                   fetched, delivered, nstart, crashed, threads, privileged, artifact,
                   launcher, icon_saved>>

\* decompress_and_install of the other installers
decompress_and_install ==
    /\ tool # "Twine"
    /\ pc = "fetched"
    /\ unpacked' = DecompressAndInstall(tool, artifact)
    /\ pc' = "extracted"
    /\ UNCHANGED <<environ, displayed, fds, renamed,
                   tool, arch, page, args, target, self, download_requests, inflight,
                   fetched, delivered, nstart, status, errmsg, crashed, threads,
                   privileged, artifact, launcher, icon_saved>>

\* Unity3D.post_install: the setuid worker, then create_launcher
Unity3D_post_install ==
    /\ tool = "Unity3D"
    /\ pc = "extracted"
    /\ \E outcome \in SetuidOutcomes :
         LET f == ChromeSandboxSetuid(outcome)
             out == UnityPostInstall(f)
         IN  /\ privileged' = Append(privileged,
                                  PrivilegedRun("_chrome_sandbox_setuid", f, pc))
             /\ launcher' = launcher + out.launcher
             /\ status' = IF out.end = "error" THEN 1 ELSE status
             /\ pc' = IF out.end = "error" THEN "failed" ELSE "done"
    /\ UNCHANGED <<environ, displayed, fds, renamed,
                   tool, arch, page, args, target, self, download_requests, inflight,
                   fetched, delivered, nstart, errmsg, crashed, threads, artifact,
                   unpacked, icon_saved>>

\* BaseEclipse.post_install: the icon download is issued, then create_launcher
Eclipse_post_install ==
    /\ tool = "Eclipse"
    /\ pc = "extracted"
    /\ inflight' = Append(inflight, Batch(<<EclipseIconUrl>>, "save_icon"))
    /\ fetched' = Append(fetched, EclipseIconUrl)
    /\ launcher' = launcher + 1
    /\ pc' = "done"
    /\ UNCHANGED <<environ, displayed, fds, renamed,
                   tool, arch, page, args, target, self, download_requests, delivered,
                   nstart, status, errmsg, crashed, threads, privileged, artifact,
                   unpacked, icon_saved>>

\* BaseEclipse.save_icon(download_result)
Eclipse_save_icon ==
    /\ tool = "Eclipse"
    /\ Running
    /\ \E i \in 1..Len(inflight), error \in BOOLEAN :
         /\ inflight[i].on_done = "save_icon"
         /\ inflight' = RemoveAt(inflight, i)
         /\ threads' = threads \cup {[callback |-> "save_icon",
                                      thread |-> ThreadOf("save_icon")]}
         /\ IF error
            THEN crashed' = "AttributeError" /\ UNCHANGED icon_saved
            ELSE icon_saved' = TRUE /\ UNCHANGED crashed
    /\ UNCHANGED <<environ, displayed, fds, renamed,
                   tool, arch, page, args, target, pc, self, download_requests, fetched,
                   delivered, nstart, status, errmsg, privileged, artifact, unpacked,
                   launcher>>

\* Arduino.post_install: create_launcher, then the message for new members
Arduino_post_install ==
    /\ tool = "Arduino"
    /\ pc = "extracted"
    /\ launcher' = launcher + 1
    /\ displayed' = IF self.was_in_arduino_group THEN displayed
                    ELSE Append(displayed, MsgLogout)
    /\ pc' = "done"
    /\ UNCHANGED <<environ, fds, renamed,
                   tool, arch, page, args, target, self, download_requests,
                   inflight, fetched, delivered, nstart, status, errmsg, crashed,
                   threads, privileged, artifact, unpacked, icon_saved>>

\* post_install of the other installers: create_launcher
post_install ==
    /\ tool \notin {"Unity3D", "Eclipse", "Arduino"}
    /\ pc = "extracted"
    /\ launcher' = launcher + 1
    /\ pc' = "done"
    /\ UNCHANGED <<environ, displayed, fds, renamed,
                   tool, arch, page, args, target, self, download_requests, inflight,
                   fetched, delivered, nstart, status, errmsg, crashed, threads,
                   privileged, artifact, unpacked, icon_saved>>

Next ==
    \/ run_for
    \/ Eclipse_get_metadata
    \/ Eclipse_get_sha_and_start_download
    \/ STS_get_metadata_and_check_license
    \/ STS_get_sha_and_start_download
    \/ Unity3D_get_metadata_and_check_license
    \/ Unity3D_get_url_and_start_download
    \/ Base_get_metadata_and_check_license
    \/ Json_get_metadata_and_check_license
    \/ JetBrains_get_metadata_and_check_license
    \/ JetBrains_checksum_downloaded
    \/ Arduino_get_metadata_and_check_license
    \/ Arduino_prepare_to_download_archive
    \/ NetBeans_get_metadata_and_check_license
    \/ NetBeans_parse_download_page_callback
    \/ download_done
    \/ Twine_decompress_and_install
    \/ decompress_and_install
    \/ Unity3D_post_install
    \/ Eclipse_post_install
    \/ Eclipse_save_icon
    \/ Arduino_post_install
    \/ post_install

Spec == Init /\ [][Next]_vars

----------------------------------------------------------------------------
\* Properties

\* the requests of the artifact: all but the logo Twine asks for at construction
ArtifactRequests == SelectSeq(download_requests, LAMBDA r : r.url # TwineLogo)

PageDone == pc \notin {"init", "wait_page"}

LineScanTools == {"Stencyl", "Twine", "SublimeText", "Eclipse", "STS"}

\* url is, or is derived from, a download link for architecture a
LinkFor(url, a) ==
    IF a = "amd64"
    THEN \E i \in 1..Len(url) : url[i] \in {"x86_64", "lin64", "linux64", "x64"}
    ELSE \/ \E i \in 1..Len(url) : url[i] \in {"lin32", "linux32", "x32"}
         \/ IsSub(<<"-linux-gtk", ".", "tar.gz">>, url)
         \/ IsSub(<<"linux-gtk", ".", "tar.gz">>, url)

\* the hrefs of the lines of the page
PageHrefs == {page.buffer[i].href : i \in 1..Len(page.buffer)} \ {None}

UsedUrls == Range(fetched) \cup {r.url : r \in Range(ArtifactRequests)}

\* C1: on a page with a link for the host architecture and a link for the other
\* one, a line-scan resolver fetches no checksum and builds no request from a
\* link of the other architecture.
C1_OnlyHostArchLinks ==
    ( /\ tool \in LineScanTools
      /\ ~page.error
      /\ \E u \in PageHrefs : LinkFor(u, arch)
      /\ \E u \in PageHrefs : LinkFor(u, OtherArch(arch)) )
    => \A u \in UsedUrls : ~LinkFor(u, OtherArch(arch))

\* the lines of the page from which the resolver's pattern extracts a URL
ExtractingLines ==
    {i \in 1..Len(page.buffer) :
        CASE tool = "Eclipse" ->
                EclipseParseDownloadLink(page.buffer[i], FALSE, self).url_found
          [] tool = "STS" ->
                StsParseDownloadLink(page.buffer[i], FALSE, self).url_found
          [] tool = "Unity3D" -> UnitySearch(page.buffer[i]) # None
          [] tool = "Stencyl" -> StencylSearch(page.buffer[i]) # None
          [] tool = "Twine" -> TwineSearch(page.buffer[i]) # None
          [] tool = "SublimeText" -> SublimeSearch(page.buffer[i]) # None
          [] OTHER -> FALSE}

\* C2: after a scan that extracted a URL from no line the run has ended with the
\* reported error "page changed its syntax" (status 1), and no fetch was issued
\* and no request built, with an empty or missing URL least of all.
C2_NoMatchIsParseError ==
    ( /\ tool \in LineScanTools \cup {"Unity3D"}
      /\ ~page.error
      /\ PageDone
      /\ ExtractingLines = {} )
    => /\ status = 1
       /\ errmsg = MsgSyntax
       /\ fetched = <<>>
       /\ ArtifactRequests = <<>>
       /\ nstart = 0

\* C3: start_download_and_install is called at most once, with exactly one
\* artifact request added by then; Eclipse and Spring Tools Suite fetch at most
\* one checksum file.
C3_OneRequestSetPerRun ==
    /\ nstart <= 1
    /\ nstart = 1 => Len(ArtifactRequests) = 1
    /\ tool \in {"Eclipse", "STS"} => Len(fetched) <= 1

\* the second-stage callbacks delivered with a result free of error
DeliveredOk == {i \in 1..Len(delivered) : ~delivered[i].error}

\* C4: in a two-stage resolver every artifact request and every call of
\* start_download_and_install comes with a delivered completion callback of a
\* second-stage fetch that succeeded; none exists while the page is scanned.
C4_RequestOnlyAfterSecondStage ==
    tool \in TwoStageTools =>
        /\ nstart <= Cardinality(DeliveredOk)
        /\ Len(ArtifactRequests) <= Cardinality(DeliveredOk)

C4_Witness ==
    /\ tool = "JetBrains"
    /\ nstart = 1
    /\ Len(ArtifactRequests) = 1
    /\ Len(delivered) = 1

\* C5: once a second-stage result with an error has been delivered the run has
\* ended with a reported error (status 1) and not with an exception of the
\* callback that read the missing buffer.
C5_SecondStageErrorReported ==
    (delivered # <<>> /\ delivered[Len(delivered)].error)
    => /\ status = 1
       /\ pc = "failed"
       /\ crashed = ""

\* C6: after the callback of a download page whose result carries an error the
\* run has ended with status 1: nothing was fetched, no request was appended
\* and the download was not started.
C6_PageErrorEndsRun ==
    (page.error /\ PageDone)
    => /\ status = 1
       /\ pc = "failed"
       /\ crashed = ""
       /\ fetched = <<>>
       /\ inflight = <<>>
       /\ download_requests = InitRequests(tool)
       /\ nstart = 0

C6_Witness == page.error /\ pc = "failed" /\ status = 1 /\ tool = "Superpowers"

\* the lines of the Unity3D page that carry a download link
UnityQualifying ==
    {i \in 1..Len(page.buffer) : UnitySearch(page.buffer[i]) # None}

\* C7: Unity3D (match_last_link) fetches the URL of the last qualifying line
\* of the page.
C7_LastLinkWins ==
    (tool = "Unity3D" /\ ~page.error /\ PageDone /\ UnityQualifying # {})
    => /\ fetched = <<page.buffer[Max(UnityQualifying)].href>>
       /\ self.download_url = page.buffer[Max(UnityQualifying)].href

C7_Witness ==
    /\ tool = "Unity3D"
    /\ ~page.error
    /\ PageDone
    /\ Cardinality(UnityQualifying) = 3
    /\ page.buffer[1].href # page.buffer[3].href
    /\ fetched = <<page.buffer[3].href>>

\* the token a JSON resolver looks for in browser_download_url
SelectionToken(t, a) ==
    CASE t = "Superpowers" -> <<"linux-", IF a = "amd64" THEN "x64" ELSE "ia32">>
      [] t = "Processing" -> <<"linux", IF a = "amd64" THEN "64" ELSE "32">>
      [] t = "LightTable" -> <<"linux">>
      [] t = "Atom" -> <<"tar.gz">>

AssetsPage == ~page.error /\ page.buffer.kind = "assets"

AllAssetsHaveUrl == \A i \in 1..Len(page.buffer.assets) : page.buffer.assets[i].has_url

\* the assets of the page that carry the selection token
Candidates ==
    {i \in 1..Len(page.buffer.assets) :
        /\ page.buffer.assets[i].has_url
        /\ IsSub(SelectionToken(tool, arch), page.buffer.assets[i].url)}

\* C8: a resolver without match_last_link builds the artifact request from the
\* first qualifying candidate of the page, in document order.
C8_FirstMatchWins ==
    /\ (tool \in JsonTools /\ nstart > 0)
       => ArtifactRequests[1].url = page.buffer.assets[Min(Candidates)].url
    /\ (tool \in {"Twine", "SublimeText"} /\ nstart > 0)
       => ArtifactRequests[1].url = page.buffer[Min(ExtractingLines)].href

\* C9: Superpowers and Processing append exactly one request, without a
\* checksum, for an asset of the page whose URL carries the token of the host
\* architecture and not the token of the other one; they do so whenever such
\* an asset is listed.
C9_AssetOfHostArch ==
    tool \in {"Superpowers", "Processing"} =>
        /\ (download_requests # <<>> \/ nstart > 0)
           => /\ Len(download_requests) = 1
              /\ nstart = 1
              /\ download_requests[1].checksum = NoChecksum
              /\ \E i \in 1..Len(page.buffer.assets) :
                     page.buffer.assets[i].url = download_requests[1].url
              /\ IsSub(SelectionToken(tool, arch), download_requests[1].url)
              /\ ~IsSub(SelectionToken(tool, OtherArch(arch)), download_requests[1].url)
        /\ (AssetsPage /\ AllAssetsHaveUrl /\ Candidates # {} /\ PageDone) => nstart = 1

C9_Witness ==
    /\ tool = "Superpowers"
    /\ arch = "amd64"
    /\ nstart = 1
    /\ \E i \in 1..Len(page.buffer.assets) :
           IsSub(<<"linux-", "ia32">>, page.buffer.assets[i].url)
    /\ IsSub(<<"linux-", "x64">>, download_requests[1].url)

ScrapedLinkUrl(href) ==
    IF tool = "Eclipse" THEN <<"https://www.eclipse.org/">> \o href ELSE href

\* C11: in Eclipse and Spring Tools Suite every artifact request carries the URL
\* of a download link scraped from the page, nothing added and nothing removed,
\* and as its digest the first token of the checksum file fetched for that link.
C11_RequestIsScrapedLinkWithDigest ==
    tool \in {"Eclipse", "STS"} =>
        \A k \in 1..Len(ArtifactRequests) :
            \E i \in ExtractingLines, j \in 1..Len(delivered) :
                /\ ArtifactRequests[k].url = ScrapedLinkUrl(page.buffer[i].href)
                /\ ~delivered[j].error
                /\ StartsWith(delivered[j].url, ScrapedLinkUrl(page.buffer[i].href))
                /\ ArtifactRequests[k].checksum.value = delivered[j].digest

\* the privileged actions of the run that gave `result`
PrivilegedWith(action, result) ==
    {k \in 1..Len(privileged) :
        privileged[k].action = action /\ privileged[k].result = result}

\* C12: the step after a privileged action is taken only when the worker returned
\* True: Unity3D creates its launcher only after _chrome_sandbox_setuid gave True,
\* Arduino starts the download only if the user was in the group or _add_to_group
\* gave True; a False result ends the run with status 1 and that step never taken.
C12_PrivilegedResultGatesNextStep ==
    /\ tool = "Unity3D" =>
          /\ launcher > 0 => PrivilegedWith("_chrome_sandbox_setuid", "True") # {}
          /\ PrivilegedWith("_chrome_sandbox_setuid", "False") # {} =>
                (status = 1 /\ pc = "failed" /\ launcher = 0)
    /\ tool = "Arduino" =>
          /\ nstart > 0 =>
                (self.was_in_arduino_group \/ PrivilegedWith("_add_to_group", "True") # {})
          /\ PrivilegedWith("_add_to_group", "False") # {} =>
                (status = 1 /\ pc = "failed" /\ nstart = 0 /\ launcher = 0)

C12_Witness ==
    /\ tool = "Unity3D"
    /\ unpacked # None
    /\ PrivilegedWith("_chrome_sandbox_setuid", "False") # {}
    /\ status = 1
    /\ launcher = 0

\* C13: a privileged action runs only in post_install, after the artifact was
\* fetched, verified and extracted; a run whose artifact was never fetched has
\* run none, so it changed no owner, mode or group.
C13_PrivilegedOnlyInPostInstall ==
    \A k \in 1..Len(privileged) :
        /\ privileged[k].stage = "extracted"
        /\ unpacked # None

\* C14: every privileged action returns True when it succeeded and False when it
\* failed, whatever the reason: no exception leaves it.
C14_PrivilegedReturnsBoolean ==
    \A k \in 1..Len(privileged) : privileged[k].result \in {"True", "False"}

\* the lines of the downloaded script that start with the archive marker
MarkerLines ==
    {i \in 1..Len(artifact) : artifact[i] # <<>> /\ artifact[i][1] = ArchiveMarker}

\* C15: Unity3D hands the extractor the stream positioned immediately after the
\* first line that starts with __ARCHIVE_BEGINS_HERE__: what is unpacked is exactly
\* the lines after that line, and a line that merely contains the marker is skipped.
C15_ExtractorStartsAfterMarker ==
    (tool = "Unity3D" /\ unpacked # None) =>
        \A i \in MarkerLines :
            (\A j \in MarkerLines : i <= j) =>
                unpacked = SubSeq(artifact, i + 1, Len(artifact))

C15_Witness ==
    /\ tool = "Unity3D"
    /\ artifact = << <<"echo ", ArchiveMarker>>, <<ArchiveMarker>>, <<"payload">> >>
    /\ unpacked # None
    /\ unpacked = << <<"payload">> >>

\* C16: once an error was reported with status 1 the run does nothing more: the
\* step that reports it and every later step start no download, issue no fetch
\* and create no launcher, and afterwards no request is added: nothing is retried.
C16_NothingAfterReportedError ==
    [][ /\ status' = 1 =>
              /\ nstart' = nstart
              /\ fetched' = fetched
              /\ launcher' = launcher
              /\ Len(inflight') <= Len(inflight)
        /\ status = 1 =>
              /\ download_requests' = download_requests
              /\ status' = 1 ]_vars

C16_Witness ==
    /\ status = 1
    /\ pc = "failed"
    /\ nstart = 1
    /\ download_requests # <<>>
    /\ launcher = 0

MalformedPage ==
    /\ ~page.error
    /\ \/ tool \in JsonTools /\ page.buffer.kind \in {"notjson", "noassets"}
       \/ /\ tool = "JetBrains"
          /\ \/ page.buffer.kind \in {"notjson", "empty"}
             \/ /\ page.buffer.kind = "releases"
                /\ page.buffer.assets # <<>>
                /\ ~page.buffer.assets[1].has_linux

\* a checksum file was fetched without error and holds no token
EmptyChecksumDelivered ==
    \E j \in 1..Len(delivered) :
        /\ delivered[j].on_done \in {"get_sha_and_start_download", "checksum_downloaded"}
        /\ ~delivered[j].error
        /\ delivered[j].digest = ""

\* C18: malformed content at a resolve stage (a body that is not JSON or lacks the
\* expected keys, an empty checksum file) ends in a reported parse error with
\* status 1: no exception is left unhandled and no request is started.
C18_MalformedContentIsParseError ==
    /\ (PageDone /\ MalformedPage) =>
          (status = 1 /\ crashed = "" /\ nstart = 0 /\ ArtifactRequests = <<>>)
    /\ EmptyChecksumDelivered => status = 1

\* values of platform.machine(), one of them without a permanent link
Machines == {"i686", "x86_64", "armv7l"}

\* the key of PERM_DOWNLOAD_LINKS an install asks for
VSCodeKey(machine, insiders) ==
    <<machine>> \o (IF insiders THEN <<"-insiders">> ELSE <<>>)

\* C19: VisualStudioCode.parse_download_link returns the permanent link stored for
\* the host machine in a stable run and for machine + '-insiders' in an insiders
\* run, never the other one, gives the in_download flag back unchanged, and returns
\* no URL for a machine the table does not hold; the request of a run carries the
\* link of its own variant.
C19_PermanentLinkOfVariant ==
    /\ tool = "VisualStudioCode" =>
        \A machine \in Machines, insiders \in BOOLEAN, in_download \in BOOLEAN,
          line \in VSCodeLines :
          LET name == RunFor("VisualStudioCode", insiders,
                             TargetInit("VisualStudioCode")).name
              r == VSCodeParseDownloadLinkOn(machine, name, line, in_download)
          IN  /\ r.in_download = in_download
              /\ r.url = PermDownloadLinks(VSCodeKey(machine, insiders))
              /\ machine \in {"i686", "x86_64"} =>
                    /\ r.url # None
                    /\ r.url # PermDownloadLinks(VSCodeKey(machine, ~insiders))
              /\ machine = "armv7l" => r.url = None
    /\ (tool = "VisualStudioCode" /\ PageDone) =>
          \A k \in 1..Len(download_requests) :
              download_requests[k].url = PermDownloadLinks(VSCodeKey(Machine, args))

C19_Witness ==
    /\ tool = "VisualStudioCode"
    /\ args
    /\ nstart = 1
    /\ Len(download_requests) = 1
    /\ download_requests[1].url = PermDownloadLinks(<<Machine, "-insiders">>)

\* the suffix of the variant a tool's flag selects
VariantSuffix == IF tool = "JetBrains" THEN "-eap" ELSE "-insiders"

\* a file name with the suffix put before its extension
Suffixed(filename, suffix) ==
    SubSeq(filename, 1, Len(filename) - 1) \o <<suffix, filename[Len(filename)]>>

\* C20: once run_for has run, and so before the pipeline fetches anything, a set
\* variant flag has put '-eap' / '-insiders' at the end of the install path and
\* before the extension of the desktop filename (JetBrains: '&type=eap' at the
\* end of the download page as well); with the flag unset name, description,
\* download page, desktop filename, install path and required files are those of
\* the constructor.
C20_RunForAppliesVariant ==
    /\ pc = "init" => (target = TargetInit(tool) /\ fetched = <<>> /\ nstart = 0)
    /\ (pc # "init" /\ HasVariant(tool) /\ args) =>
          /\ target.install_path = TargetInit(tool).install_path \o <<VariantSuffix>>
          /\ target.desktop_filename =
                Suffixed(TargetInit(tool).desktop_filename, VariantSuffix)
          /\ tool = "JetBrains" =>
                target.download_page = TargetInit(tool).download_page \o <<"&type=eap">>
    /\ (pc # "init" /\ ~args) => target = TargetInit(tool)

C20_Witness ==
    /\ tool = "JetBrains"
    /\ args
    /\ pc = "started"
    /\ target.install_path = <<"~/.local/share/umake/", "jetbrains-pycharm-ce", "-eap">>
    /\ target.desktop_filename = <<"jetbrains-pycharm-ce", "-eap", ".desktop">>

\* number of hexadecimal characters of a digest of the kind
DigestSize(type) ==
    CASE type = "md5" -> 32
      [] type = "sha1" -> 40
      [] type = "sha256" -> 64
      [] type = "sha512" -> 128
      [] OTHER -> 0

\* length of a token that servers publish as a digest: "d1" and the tokens named
\* after a kind are full digests of that kind ("d1": sha1), "d2" is a short token
\* such as deadbeef
HexLength(token) ==
    CASE token \in {"d1", "sha1a", "sha1b", "sha1c"} -> 40
      [] token \in {"sha256a", "sha256b", "sha256c"} -> 64
      [] token \in {"md5a", "md5b", "md5c"} -> 32
      [] token = "d2" -> 8
      [] OTHER -> 0

\* C21: every checksum attached to an artifact request has a digest as long as
\* the output of its kind (md5 32, sha1 40, sha256 64, sha512 128 hexadecimal
\* characters), whatever the page or the checksum file held.
C21_DigestLengthMatchesKind ==
    \A k \in 1..Len(ArtifactRequests) :
        ArtifactRequests[k].checksum # NoChecksum =>
            HexLength(ArtifactRequests[k].checksum.value)
                = DigestSize(ArtifactRequests[k].checksum.type)

\* the scan state holds nothing scraped
ScanStateEmpty(slf) ==
    /\ slf.download_url = None
    /\ slf.checksum = None
    /\ slf.sha512_url = None
    /\ slf.checksum_url = None
    /\ slf.scraped_download_url = None
    /\ slf.scraped_checksum_url = None
    /\ slf.version = None

\* what the first pass does with the page when nothing was scraped before it
FreshPass ==
    LET fresh == [download_url |-> None, checksum |-> None, sha512_url |-> None,
                  checksum_url |-> None, scraped_download_url |-> None,
                  scraped_checksum_url |-> None, version |-> None,
                  version_download_page |-> None,
                  was_in_arduino_group |-> self.was_in_arduino_group]
    IN  IF tool = "Unity3D"
        THEN UnityGetMetadataAndCheckLicense(page, fresh, InitRequests(tool))
        ELSE ArduinoGetMetadataAndCheckLicense(page, fresh, InitRequests(tool))

RECURSIVE StencylFlagBefore(_, _)
\* the flag parse_download_link is given for line i of a scan that starts unset
StencylFlagBefore(lines, i) ==
    IF i = 1 THEN FALSE
    ELSE StencylParseDownloadLink(lines[i - 1], StencylFlagBefore(lines, i - 1)).in_download

\* what parse_download_link returns for line i of the scan
StencylAt(lines, i) == StencylParseDownloadLink(lines[i], StencylFlagBefore(lines, i))

\* line i is scanned in the section: an opening line at or before it, and no
\* sentinel line from that line up to the line before i
StencylInSection(lines, i) ==
    \E j \in 1..i :
        /\ InLine(StencylOpen, lines[j])
        /\ \A k \in j..(i - 1) : ~InLine(StencylSentinel, lines[k])

\* no URL is returned for a line before the first opening line or between a
\* sentinel line and the next opening line
StencylUrlOnlyInSection(lines) ==
    \A i \in 1..Len(lines) : StencylAt(lines, i).has => StencylInSection(lines, i)

\* C24 as stated: over any sequence of lines the flag returned is True after a
\* line containing '>Linux <' and False after a line containing the sentinel, and
\* a URL is returned only for lines scanned in the section.
C24_FlagFollowsOpeningAndSentinel ==
    (tool = "Stencyl" /\ ~page.error) =>
        /\ \A i \in 1..Len(page.buffer) :
              /\ InLine(StencylOpen, page.buffer[i]) =>
                    StencylAt(page.buffer, i).in_download
              /\ InLine(StencylSentinel, page.buffer[i]) =>
                    ~StencylAt(page.buffer, i).in_download
        /\ StencylUrlOnlyInSection(page.buffer)

\* C24 amended: the flag returned is False after a line containing the sentinel,
\* also when that line contains '>Linux <', and True after a line containing
\* '>Linux <' without the sentinel; a URL is returned only for lines scanned in
\* the section.
C24_SentinelWinsOverOpening ==
    (tool = "Stencyl" /\ ~page.error) =>
        /\ \A i \in 1..Len(page.buffer) :
              /\ InLine(StencylSentinel, page.buffer[i]) =>
                    ~StencylAt(page.buffer, i).in_download
              /\ (InLine(StencylOpen, page.buffer[i])
                    /\ ~InLine(StencylSentinel, page.buffer[i])) =>
                    StencylAt(page.buffer, i).in_download
        /\ StencylUrlOnlyInSection(page.buffer)

C24_Witness ==
    /\ tool = "Stencyl"
    /\ ~page.error
    /\ PageDone
    /\ Len(page.buffer) = 2
    /\ InLine(StencylOpen, page.buffer[1]) /\ InLine(StencylSentinel, page.buffer[1])
    /\ StencylSearch(page.buffer[2]) # None
    /\ ~StencylAt(page.buffer, 2).has
    /\ status = 1

\* the state of Unity3D's scan after the first i lines of the page
UnityScanned(lines, i) ==
    UnityScan(SubSeq(lines, 1, i), 1,
              [url_found |-> FALSE, in_download |-> FALSE, self |-> SelfInit(FALSE)])

\* C25: in Unity3D, when parse_download_link reports url_found for a line,
\* self.download_url holds the URL captured from that line, and so the
\* second-stage fetch targets a URL that was scraped from the page, never a
\* missing one.
C25_UrlFoundMeansUrlCaptured ==
    (tool = "Unity3D" /\ ~page.error) =>
        /\ \A i \in 1..Len(page.buffer) :
              LET before == UnityScanned(page.buffer, i - 1)
                  r == UnityParseDownloadLink(page.buffer[i], before.in_download,
                                              before.self)
              IN  r.url_found =>
                    /\ UnitySearch(page.buffer[i]) # None
                    /\ r.self.download_url = UnitySearch(page.buffer[i])
        /\ \A k \in 1..Len(fetched) :
              /\ fetched[k] # None
              /\ \E i \in 1..Len(page.buffer) : UnitySearch(page.buffer[i]) = fetched[k]

\* C26: in Unity3D the checksum of the artifact request was scraped from the line
\* of the download link that was selected, never from the line of another release.
C26_ChecksumOfSelectedRelease ==
    (tool = "Unity3D" /\ ~page.error) =>
        \A k \in 1..Len(ArtifactRequests) :
            \E i \in 1..Len(page.buffer) :
                /\ UnitySearch(page.buffer[i]) # None
                /\ UnitySearch(page.buffer[i]) = self.download_url
                /\ page.buffer[i].sha = ArtifactRequests[k].checksum.value

\* checksum_type given to BaseInstaller.__init__ by the classes that declare one
DeclaredChecksumType(t) ==
    CASE t \in {"Unity3D", "STS"} -> "sha1"
      [] t \in {"LightTable", "Atom"} -> "md5"
      [] OTHER -> "none"

\* C27: a tool that declares a checksum type never has an artifact request
\* without an expected checksum of that type: every request it hands to the
\* download carries a checksum of the declared type with a digest.
C27_DeclaredChecksumIsAttached ==
    DeclaredChecksumType(tool) # "none" =>
        \A k \in 1..Len(ArtifactRequests) :
            /\ ArtifactRequests[k].checksum.type = DeclaredChecksumType(tool)
            /\ ArtifactRequests[k].checksum.value # ""

\* C28: once post_install of Eclipse has registered the launcher, the icon download
\* it issued is no longer in flight, has ended without error and the icon file has
\* been copied into the install directory.
C28_LauncherAfterIconSaved ==
    (tool = "Eclipse" /\ launcher > 0) =>
        /\ icon_saved
        /\ \A i \in 1..Len(inflight) : inflight[i].on_done # "save_icon"

\* the first page has a link to the archive of this machine / a Checksums link
ArduinoHasDownloadLink == \E i \in 1..Len(page.buffer) : ArduinoLinkMatch(page.buffer[i].href)
ArduinoHasChecksumLink == \E i \in 1..Len(page.buffer) : page.buffer[i].text = "Checksums"

\* C29: Arduino hands its second-stage batch (download page and checksum page in
\* one call) to the Download Center only when the first page gave both links;
\* when one is missing the run has ended with status 1 and the parse error of that
\* link and nothing was fetched. Once prepare_to_download_archive has set the
\* requests, there is exactly one, with the md5 digest of the checksum page and the
\* cookies of the download page that gave its URL.
C29_BatchNeedsBothLinksThenOneRequest ==
    (tool = "Arduino" /\ PageDone /\ ~page.error) =>
        /\ fetched # <<>> =>
              /\ ArduinoHasDownloadLink /\ ArduinoHasChecksumLink
              /\ Len(fetched) = 2
              /\ \E i, j \in 1..Len(page.buffer) :
                    /\ ArduinoLinkMatch(page.buffer[i].href)
                    /\ page.buffer[j].text = "Checksums"
                    /\ fetched = << <<"http:">> \o page.buffer[i].href,
                                    <<"http:">> \o page.buffer[j].href >>
        /\ ~ArduinoHasDownloadLink =>
              status = 1 /\ errmsg = MsgNoDownloadLink /\ fetched = <<>> /\ inflight = <<>>
        /\ (ArduinoHasDownloadLink /\ ~ArduinoHasChecksumLink) =>
              status = 1 /\ errmsg = MsgNoChecksumLink /\ fetched = <<>> /\ inflight = <<>>
        /\ download_requests # <<>> =>
              /\ Len(download_requests) = 1
              /\ \E k \in 1..Len(delivered) :
                    delivered[k].on_done = "prepare_to_download_archive" /\ ~delivered[k].error
              /\ download_requests[1].checksum.type = "md5"
              /\ \E ck \in ArduinoChecksumPages :
                    /\ ArduinoChecksumSearch(ck) # None
                    /\ download_requests[1].checksum.value = ArduinoChecksumSearch(ck)[1]
              /\ \E dl \in ArduinoDownloadPages :
                    /\ dl.button
                    /\ download_requests[1].url = UrlJoin(dl.final_url, dl.href)
                    /\ download_requests[1].cookies = dl.cookies

C29_Witness ==
    /\ tool = "Arduino" /\ ~page.error
    /\ Len(fetched) = 2
    /\ Len(download_requests) = 1
    /\ download_requests[1].cookies = <<"visitor">>
    /\ nstart = 1

\* the invoking user was a member of dialout when the installer was constructed
UserWasMember == InvokingUser(environ) \in environ.dialout

AddToGroupInvoked == \E k \in 1..Len(privileged) : privileged[k].action = "_add_to_group"

LogoutDisplayed == \E k \in 1..Len(displayed) : displayed[k] = MsgLogout

\* C30: in Arduino root access is required exactly when the user was not a member
\* of dialout at construction; add-to-group is invoked and the logout message is
\* displayed only for such a user, and for such a user the add-to-group action has
\* run once the download is started and the message is displayed once the install
\* is done; for a member no privileged action is run in the whole install.
C30_GroupHandlingIffNotMember ==
    tool = "Arduino" =>
        /\ ArduinoNeedRootAccess(self.was_in_arduino_group) <=> ~UserWasMember
        /\ AddToGroupInvoked => ~UserWasMember
        /\ LogoutDisplayed => ~UserWasMember
        /\ (~UserWasMember /\ nstart > 0) => AddToGroupInvoked
        /\ (~UserWasMember /\ pc = "done") => LogoutDisplayed
        /\ UserWasMember => privileged = <<>>

\* C31: the user whose membership of dialout Arduino tests, and whom it adds to
\* the group, is the invoking user: USER for a process that is not root, the
\* owner of SUDO_UID under sudo; never root for a run a non-root user started.
C31_CurrentUserIsInvokingUser ==
    tool = "Arduino" =>
        /\ ArduinoCurrentUser(environ) = InvokingUser(environ)
        /\ self.was_in_arduino_group <=> (InvokingUser(environ) \in environ.dialout)
        /\ environ.login # "root" => ArduinoCurrentUser(environ) # "root"

RECURSIVE VSCodeLicenseAfter(_, _)
\* the text written and the flag after parse_license was given the first i lines,
\* starting outside a section with nothing written
VSCodeLicenseAfter(lines, i) ==
    IF i = 0 THEN [license_txt |-> <<>>, in_license |-> FALSE]
    ELSE LET before == VSCodeLicenseAfter(lines, i - 1)
         IN  VSCodeParseLicense(lines[i], before.license_txt, before.in_license)

\* line i is in a section: a line containing the terms heading at or before it,
\* and no line containing '</div>' after that heading up to and including i
InLicenseSection(lines, i) ==
    \E a \in 1..i :
        /\ InLine(LicenseTerms, lines[a])
        /\ \A b \in (a + 1)..i : ~InLine(DivEnd, lines[b])

RECURSIVE SectionText(_, _)
\* the stripped lines of the sections among the first i lines
SectionText(lines, i) ==
    IF i = 0 THEN <<>>
    ELSE SectionText(lines, i - 1)
         \o (IF InLicenseSection(lines, i) THEN <<Strip(lines[i])>> ELSE <<>>)

\* C32: for every sequence of lines VisualStudioCode.parse_license writes exactly
\* the stripped lines from a line containing 'SOFTWARE LICENSE TERMS' (inclusive)
\* to the next line containing '</div>' (exclusive), and the flag it returns is
\* True exactly while inside such a section.
C32_LicenseIsTheSections ==
    (tool = "VisualStudioCode" /\ ~page.error) =>
        \A i \in 0..Len(page.buffer) :
            /\ VSCodeLicenseAfter(page.buffer, i).license_txt = SectionText(page.buffer, i)
            /\ i > 0 => (VSCodeLicenseAfter(page.buffer, i).in_license
                            <=> InLicenseSection(page.buffer, i))

\* one of the downloaded files is an .svg file
SvgAmongFds == \E i \in 1..Len(fds) : EndsWith(fds[i], <<".", "svg">>)

\* C33: Twine asks for the .svg logo at construction and extracts the artifact only
\* when an .svg file is among the downloaded files; without one the run has ended
\* with status 1 and the icon error, nothing was extracted or renamed and no
\* launcher was created. Once the extraction is done the logo has been renamed to
\* logo.svg in the install directory, so it is before the launcher is created.
C33_TwineLogoGatesExtraction ==
    tool = "Twine" =>
        /\ \E k \in 1..Len(download_requests) : download_requests[k].url = TwineLogo
        /\ unpacked # None => SvgAmongFds
        /\ (fds # <<>> /\ ~SvgAmongFds /\ pc # "fetched") =>
              /\ status = 1 /\ errmsg = MsgNoIcon /\ pc = "failed"
              /\ unpacked = None /\ renamed = <<>> /\ launcher = 0
        /\ (pc \in {"extracted", "done"} \/ launcher > 0) =>
              /\ unpacked # None
              /\ Len(renamed) = 1
              /\ renamed[1].dst = target.install_path \o <<"logo.svg">>
              /\ \E i \in 1..Len(fds) :
                    /\ EndsWith(fds[i], <<".", "svg">>)
                    /\ renamed[1].src = target.install_path \o Basename(fds[i])

C33_Witness ==
    /\ tool = "Twine"
    /\ pc = "done"
    /\ launcher = 1
    /\ fds = <<ArchiveFd, LogoFd>>
    /\ renamed = <<[src |-> target.install_path \o <<"tmpb2", ".", "svg">>,
                    dst |-> target.install_path \o <<"logo.svg">>]>>

\* C34: Unity3D.decompress_and_install invokes the extractor only when a line of the
\* downloaded script starts with __ARCHIVE_BEGINS_HERE__; for a script without
\* such a line the extractor is not invoked and the install has failed.
C34_NoMarkerNoExtraction ==
    tool = "Unity3D" =>
        /\ unpacked # None => MarkerLines # {}
        /\ (pc \in {"extracted", "done", "failed"} /\ fds # <<>> /\ MarkerLines = {}) =>
              /\ unpacked = None
              /\ pc = "failed"
              /\ launcher = 0

====
